---- MODULE Spec2Model ----
(***************************************************************************)
(* Lyricsync: the lyric-to-timeline alignment engine of src/lyricsync.py.  *)
(*                                                                         *)
(* Strings are sequences of one-character strings.  Times are integers in  *)
(* units of 0.01 s (pad_s = 0.02 s is 2, min_gap_s = 0.08 s is 8, ...).     *)
(* Scores are exact rationals <<num, den>> with den > 0.                   *)
(***************************************************************************)
EXTENDS Integers, Sequences, FiniteSets, TLC

(***************************************************************************)
(* Bounds of the model.                                                    *)
(***************************************************************************)
MaxWords == 3
MaxLines == 3

(***************************************************************************)
(* Small integer helpers.                                                  *)
(***************************************************************************)
Max(a, b) == IF a >= b THEN a ELSE b
Min(a, b) == IF a <= b THEN a ELSE b
Abs(a) == IF a >= 0 THEN a ELSE -a

(***************************************************************************)
(* Rationals <<num, den>> in lowest terms, den > 0: the floats of the      *)
(* scores.                                                                 *)
(***************************************************************************)
RECURSIVE GCD(_, _)
GCD(a, b) == IF b = 0 THEN a ELSE GCD(b, a % b)
LCM(a, b) == (a \div GCD(a, b)) * b

Rat(num, den) == <<num \div GCD(Abs(num), den), den \div GCD(Abs(num), den)>>
OverDen(x, l) == x[1] * (l \div x[2])
SubOver(x, y, l) == Rat(OverDen(x, l) - OverDen(y, l), l)
AddOver(x, y, l) == Rat(OverDen(x, l) + OverDen(y, l), l)
LessOver(x, y, l) == OverDen(x, l) < OverDen(y, l)
RSub(x, y) == SubOver(x, y, LCM(x[2], y[2]))
RAdd(x, y) == AddOver(x, y, LCM(x[2], y[2]))
RHalf(x) == Rat(x[1], 2 * x[2])
RScale(k, x) == Rat(k * x[1], x[2])
RLess(x, y) == LessOver(x, y, LCM(x[2], y[2]))
RGeq(x, y) == ~RLess(x, y)
RMax(x, y) == IF RGeq(x, y) THEN x ELSE y
RZero == <<0, 1>>
ROne == <<1, 1>>

(***************************************************************************)
(* normalize_text: lowercase; every character outside [a-z0-9'\s] becomes  *)
(* a space; runs of whitespace collapse to one space; strip.               *)
(***************************************************************************)
Lower(c) == IF c = "A" THEN "a" ELSE IF c = "B" THEN "b" ELSE IF c = "C" THEN "c" ELSE c

KeptChars == {"a", "b", "c", "'", " "}

SubPunct(s) == [i \in 1..Len(s) |-> IF Lower(s[i]) \in KeptChars THEN Lower(s[i]) ELSE " "]

RECURSIVE CollapseWs(_)
CollapseWs(s) ==
    IF Len(s) <= 1 THEN s
    ELSE IF s[1] = " " /\ s[2] = " " THEN CollapseWs(Tail(s))
    ELSE <<s[1]>> \o CollapseWs(Tail(s))

RECURSIVE LStrip(_)
LStrip(s) == IF s # <<>> /\ s[1] = " " THEN LStrip(Tail(s)) ELSE s

RECURSIVE RStrip(_)
RStrip(s) == IF s # <<>> /\ s[Len(s)] = " " THEN RStrip(SubSeq(s, 1, Len(s) - 1)) ELSE s

Strip(s) == RStrip(LStrip(s))

(* mutant of normalize_text: the string is stripped before the punctuation  *)
(* is replaced                                                              *)
normalize_text_StripFirst(s) == CollapseWs(SubPunct(Strip(s)))

normalize_text(s) == Strip(CollapseWs(SubPunct(s)))

(***************************************************************************)
(* str.split(): the maximal runs of non-space characters, in order.        *)
(***************************************************************************)
RECURSIVE SplitAcc(_, _, _)
SplitAcc(s, tok, acc) ==
    IF s = <<>> THEN (IF tok = <<>> THEN acc ELSE Append(acc, tok))
    ELSE IF s[1] = " " THEN SplitAcc(Tail(s), <<>>, IF tok = <<>> THEN acc ELSE Append(acc, tok))
    ELSE SplitAcc(Tail(s), Append(tok, s[1]), acc)

Split(s) == SplitAcc(s, <<>>, <<>>)

Range(t) == {t[i] : i \in 1..Len(t)}

_tokset(s) == Range(Split(normalize_text(s)))

(***************************************************************************)
(* difflib.SequenceMatcher(None, a, b).ratio(): the total size M of the    *)
(* matching blocks (longest block first, earliest in a then earliest in b, *)
(* then the pieces left and right of it), ratio = 2M / (len a + len b),    *)
(* and 1.0 when both strings are empty.  Offsets are 0-based, hi exclusive.*)
(***************************************************************************)
RECURSIVE RunLen(_, _, _, _, _, _)
RunLen(a, i, ahi, b, j, bhi) ==
    IF i < ahi /\ j < bhi /\ a[i + 1] = b[j + 1]
    THEN 1 + RunLen(a, i + 1, ahi, b, j + 1, bhi)
    ELSE 0

MaxOf(S) == CHOOSE k \in S : \A x \in S : x <= k
MinOf(S) == CHOOSE k \in S : \A x \in S : k <= x

SizedCands(a, alo, ahi, b, blo, bhi) ==
    {<<i, j, RunLen(a, i, ahi, b, j, bhi)>> : i \in alo..(ahi - 1), j \in blo..(bhi - 1)}
PickJ(top, besti, bestsize) ==
    <<besti, MinOf({p[2] : p \in {q \in top : q[1] = besti}}), bestsize>>
PickI(top, bestsize) == PickJ(top, MinOf({p[1] : p \in top}), bestsize)
PickTop(sized, bestsize, alo, blo) ==
    IF bestsize = 0 THEN <<alo, blo, 0>> ELSE PickI({p \in sized : p[3] = bestsize}, bestsize)
PickBest(sized, alo, blo) ==
    PickTop(sized, IF sized = {} THEN 0 ELSE MaxOf({p[3] : p \in sized}), alo, blo)
find_longest_match(a, alo, ahi, b, blo, bhi) ==
    PickBest(SizedCands(a, alo, ahi, b, blo, bhi), alo, blo)

RECURSIVE MatchSize(_, _, _, _, _, _)
MatchRest(a, alo, ahi, b, blo, bhi, m) ==
    IF m[3] = 0 THEN 0
    ELSE m[3] + MatchSize(a, alo, m[1], b, blo, m[2])
              + MatchSize(a, m[1] + m[3], ahi, b, m[2] + m[3], bhi)
MatchSize(a, alo, ahi, b, blo, bhi) ==
    MatchRest(a, alo, ahi, b, blo, bhi, find_longest_match(a, alo, ahi, b, blo, bhi))

ratio(a, b) ==
    IF Len(a) + Len(b) = 0 THEN ROne
    ELSE Rat(2 * MatchSize(a, 0, Len(a), b, 0, Len(b)), Len(a) + Len(b))

(***************************************************************************)
(* _hybrid_score: 0.0 when a raw argument is empty; else half the          *)
(* character ratio plus half the Jaccard overlap of the token sets.        *)
(***************************************************************************)
Jaccard(A, B, union) ==
    IF A # {} \/ B # {}
    THEN Rat(Cardinality(A \cap B), IF union = 0 THEN 1 ELSE union)
    ELSE RZero

Blend(char, tok) == RAdd(RHalf(char), RHalf(tok))

TokSim(A, B) == Jaccard(A, B, Cardinality(A \cup B))

ScoreNormalized(a_n, b_n) == Blend(ratio(a_n, b_n), TokSim(_tokset(a_n), _tokset(b_n)))

_hybrid_score(a, b) ==
    IF a = <<>> \/ b = <<>> THEN RZero
    ELSE ScoreNormalized(normalize_text(a), normalize_text(b))

(***************************************************************************)
(* Inputs.  Word and segment texts and lyric lines come from small sets of *)
(* raw strings; a text of punctuation only normalizes to the empty string  *)
(* (a blank lyric line: the aligners branch on normalize_text(line) only). *)
(* A layout places item k at start = t0 + (k-1)*step, end = start + dur.   *)
(***************************************************************************)
WordTexts == {<<"a">>, <<"b">>, <<"!">>}
SegTexts == {<<"a", " ", "b">>, <<"!">>}
LineTexts == {<<"!">>, <<"a", " ", "b">>, <<"A">>}
Layouts == {[t0 |-> 0, step |-> 3, dur |-> 3],
            [t0 |-> 10, step |-> 100, dur |-> 40]}

Timed(texts, lay) ==
    [k \in 1..Len(texts) |->
        [text |-> texts[k],
         start |-> lay.t0 + (k - 1) * lay.step,
         end |-> lay.t0 + (k - 1) * lay.step + lay.dur]]

SeqsUpTo(S, m) == UNION {[1..k -> S] : k \in 0..m}

WordLists == {Timed(t, lay) : t \in SeqsUpTo(WordTexts, MaxWords), lay \in Layouts}
SegLists == {Timed(t, lay) : t \in SeqsUpTo(SegTexts, MaxWords), lay \in Layouts}
LineLists == SeqsUpTo(LineTexts, MaxLines)

(***************************************************************************)
(* State.  mode is main's align_mode; pc is the position in main's         *)
(* alignment block; li is the line loop's position; asr_tokens is the word *)
(* aligner's token list, computed once on entry; hist is a history         *)
(* variable: for each line processed by an aligner, the branch taken and   *)
(* the cursor before and after it.  main is the record of main's other     *)
(* locals (the transcription pass and the auto-mode decision); call is a   *)
(* direct call of a pure function: its arguments and its result.           *)
(***************************************************************************)
VARIABLES mode, words, segs, lyric_lines, pc, li,
          asr_tokens, cur_idx, spans, scores,
          out, last_end_time,
          cur, last_end, hist,
          main, call

vars == <<mode, words, segs, lyric_lines, pc, li, asr_tokens, cur_idx, spans, scores,
          out, last_end_time, cur, last_end, hist, main, call>>

NLines == Len(lyric_lines)

MatchSpan(line_index, start_word, end_word, score) ==
    [line_index |-> line_index, start_word |-> start_word,
     end_word |-> end_word, score |-> score]

TimedLine(idx, line_index, start, end, text) ==
    [idx |-> idx, line_index |-> line_index, start |-> start, end |-> end, text |-> text]

Hist(kind, before, after) == [kind |-> kind, before |-> before, after |-> after]

(***************************************************************************)
(* greedy_align_lines_to_words: parameters (defaults).                     *)
(***************************************************************************)
min_window == 2
max_window_extra == 6
early_break == 60
backtrack == 3
lookahead == 30
jump_penalty == Rat(2, 1000)
accept_thresh == Rat(55, 100)
strong_thresh == Rat(78, 100)
early_break_score == Rat(60, 100)

(* mutant of Tokenize: the words that normalize to "" are kept as tokens *)
Tokenize_KeepEmpty(ws) == [k \in 1..Len(ws) |-> normalize_text(ws[k].text)]

(* the pre-tokenizing: the normalized word texts, the empty ones dropped *)
Tokenize(ws) ==
    SelectSeq([k \in 1..Len(ws) |-> normalize_text(ws[k].text)],
              LAMBDA t : t # <<>>)

n == Len(asr_tokens)

(* " ".join(toks[start:end]), 0-based start, end exclusive *)
RECURSIVE Join(_, _, _)
Join(toks, start, end) ==
    IF start >= end \/ start >= Len(toks) THEN <<>>
    ELSE IF start + 1 >= end \/ start + 1 >= Len(toks) THEN toks[start + 1]
    ELSE toks[start + 1] \o <<" ">> \o Join(toks, start + 1, end)

tgt_len(norm_line) == Max(Len(Split(norm_line)), min_window)
win_min(norm_line) == Max(min_window, tgt_len(norm_line) - 3)
win_max(norm_line, start) == Min(tgt_len(norm_line) + max_window_extra, n - start)

Best(score, start, end) == [score |-> score, start |-> start, end |-> end]

Better(best, score, start, end) ==
    IF RLess(best.score, score) THEN Best(score, start, end) ELSE best

(* the inner loop over window lengths, from length win on *)
RECURSIVE ScanWin(_, _, _, _, _, _)
ScoreWin(norm_line, c, start, win, joined, best, base) ==
    IF RGeq(base, strong_thresh) /\ start >= c
    THEN Better(best, RSub(base, RScale(Abs(start - c), jump_penalty)), start, start + win)
    ELSE ScanWin(norm_line, c, start, win + 1, joined,
                 Better(best, RSub(base, RScale(Abs(start - c), jump_penalty)), start, start + win))

TryWin(norm_line, c, start, win, joined, best) ==
    IF joined = <<>> THEN ScanWin(norm_line, c, start, win + 1, joined, best)
    ELSE ScoreWin(norm_line, c, start, win, joined, best, _hybrid_score(joined, norm_line))

ScanWin(norm_line, c, start, win, joined, best) ==
    IF win > win_max(norm_line, start) THEN best
    ELSE TryWin(norm_line, c, start, win,
                IF win = win_min(norm_line)
                THEN Strip(Join(asr_tokens, start, start + win))
                ELSE Strip(joined \o <<" ">> \o asr_tokens[start + win]),
                best)

(* the outer loop over candidate starts, from start on *)
RECURSIVE ScanStart(_, _, _, _)
ScanStart(norm_line, c, start, best) ==
    IF start > Min(n - 1, c + lookahead) THEN best
    ELSE IF start - c > early_break /\ RGeq(best.score, early_break_score) THEN best
    ELSE ScanStart(norm_line, c, start + 1,
                   ScanWin(norm_line, c, start, win_min(norm_line), <<>>, best))

(* mutant of BestMatch: the candidate starts are scanned from the first token on *)
BestMatch_FromZero(norm_line, c) ==
    ScanStart(norm_line, c, 0, Best(Rat(-1, 1), c, c))

BestMatch(norm_line, c) ==
    ScanStart(norm_line, c, Max(0, c - backtrack), Best(Rat(-1, 1), c, c))

(* mutant of StubSpans: the stubs sit at word index 0, not at the cursor *)
StubSpans_AtZero(lo, hi, at) ==
    [k \in 1..(hi - lo) |-> [line_index |-> lo + k - 1, start_word |-> 0,
                             end_word |-> 0, score |-> RZero]]

(* mutant of StubSpans: the stub of the first remaining line is skipped *)
StubSpans_SkipFirst(lo, hi, at) ==
    [k \in 1..(hi - lo - 1) |-> [line_index |-> lo + k, start_word |-> at,
                                 end_word |-> at, score |-> RZero]]

(* stubs for the lines lo..hi-1 at word index at, score 0.0 *)
StubSpans(lo, hi, at) == [k \in 1..(hi - lo) |-> MatchSpan(lo + k - 1, at, at, RZero)]
ZeroScores(k) == [i \in 1..k |-> RZero]
StubHist(k, at) == [i \in 1..k |-> Hist("stub", at, at)]

AlignerVarsUnchanged ==
    UNCHANGED <<mode, words, segs, lyric_lines, asr_tokens, out, last_end_time, cur, last_end,
                main, call>>

(* n == 0: a zero-length span [0, 0) with score 0.0 for every line, and return *)
AlignEmpty ==
    /\ pc = "align" /\ n = 0
    /\ spans' = StubSpans(0, NLines, 0)
    /\ scores' = ZeroScores(NLines)
    /\ hist' = [i \in 1..NLines |-> Hist("empty", 0, 0)]
    /\ pc' = "materialize"
    /\ UNCHANGED <<li, cur_idx>>
    /\ AlignerVarsUnchanged

(* mutant of BlankSpan: a blank line is scored 0.0 like a stub *)
BlankSpan_ZeroScore(line, c) == MatchSpan(line, c, c, RZero)

BlankSpan(line, c) == MatchSpan(line, c, c, ROne)

(* a line that normalizes to "": zero-length span at the cursor, score 1.0 *)
AlignBlank ==
    /\ pc = "align" /\ n > 0 /\ li < NLines
    /\ normalize_text(lyric_lines[li + 1]) = <<>>
    /\ spans' = Append(spans, BlankSpan(li, cur_idx))
    /\ scores' = Append(scores, BlankSpan(li, cur_idx).score)
    /\ hist' = Append(hist, Hist("blank", cur_idx, cur_idx))
    /\ li' = li + 1
    /\ UNCHANGED <<pc, cur_idx>>
    /\ AlignerVarsUnchanged

AcceptEnd(best) ==
    IF best.end <= best.start THEN Min(best.start + Max(min_window, 1), n) ELSE best.end

(* best score >= accept_thresh: commit the span, move the cursor to its end; *)
(* when the cursor reaches n, stub every remaining line and leave the loop   *)
AlignAccept ==
    /\ pc = "align" /\ n > 0 /\ li < NLines
    /\ LET norm_line == normalize_text(lyric_lines[li + 1])
           best == BestMatch(norm_line, cur_idx)
           best_end == AcceptEnd(best)
       IN /\ norm_line # <<>>
          /\ RGeq(best.score, accept_thresh)
          /\ cur_idx' = best_end
          /\ IF best_end >= n
             THEN /\ spans' = Append(spans, MatchSpan(li, best.start, best_end, best.score))
                                \o StubSpans(li + 1, NLines, best_end)
                  /\ scores' = Append(scores, best.score) \o ZeroScores(NLines - (li + 1))
                  /\ hist' = Append(hist, Hist("accept", cur_idx, best_end))
                                \o StubHist(NLines - (li + 1), best_end)
                  /\ li' = NLines
             ELSE /\ spans' = Append(spans, MatchSpan(li, best.start, best_end, best.score))
                  /\ scores' = Append(scores, best.score)
                  /\ hist' = Append(hist, Hist("accept", cur_idx, best_end))
                  /\ li' = li + 1
    /\ UNCHANGED pc
    /\ AlignerVarsUnchanged

(* mutant of fallback_end: the fallback span is one word, not max(min_window, 1) *)
fallback_end_OneWord(c) == Min(c + 1, n)

fallback_end(c) == Min(c + Max(min_window, 1), n)

(* best score < accept_thresh: fallback span at the cursor, cursor to its end *)
AlignReject ==
    /\ pc = "align" /\ n > 0 /\ li < NLines
    /\ LET norm_line == normalize_text(lyric_lines[li + 1])
           best == BestMatch(norm_line, cur_idx)
           sc == RMax(RZero, best.score)
       IN /\ norm_line # <<>>
          /\ RLess(best.score, accept_thresh)
          /\ spans' = Append(spans, MatchSpan(li, cur_idx, fallback_end(cur_idx), sc))
          /\ scores' = Append(scores, sc)
          /\ hist' = Append(hist, Hist("reject", cur_idx, fallback_end(cur_idx)))
          /\ cur_idx' = fallback_end(cur_idx)
          /\ li' = li + 1
    /\ UNCHANGED pc
    /\ AlignerVarsUnchanged

(* after the loop: one stub per line that has no span yet, and return *)
AlignReturn ==
    /\ pc = "align" /\ n > 0 /\ li = NLines
    /\ LET at == IF spans # <<>> THEN spans[Len(spans)].end_word ELSE 0
           missing == NLines - Len(spans)
       IN /\ spans' = spans \o StubSpans(Len(spans), NLines, at)
          /\ scores' = scores \o ZeroScores(IF missing > 0 THEN missing ELSE 0)
    /\ pc' = "materialize"
    /\ UNCHANGED <<li, cur_idx, hist>>
    /\ AlignerVarsUnchanged

(***************************************************************************)
(* word_spans_to_timed_lines: parameters (defaults), in units of 0.01 s.   *)
(***************************************************************************)
pad_s == 2
min_gap_s == 8
min_dur_s == 75
spread_min_dur == 50
spread_gap == 10

MaterializerVarsUnchanged ==
    UNCHANGED <<mode, words, segs, lyric_lines, li, asr_tokens, cur_idx, spans, scores,
                cur, last_end, hist, main, call>>

(* mutant of Spread: the 0.1 s gap between two lines is left out *)
RECURSIVE Spread_NoGap(_, _, _)
Spread_NoGap(i, t, acc) ==
    IF i >= NLines THEN acc
    ELSE LET end == t + Max(spread_min_dur, min_dur_s)
         IN Spread_NoGap(i + 1, end,
                         Append(acc, TimedLine(i, i, t, end, lyric_lines[i + 1])))

(* the emergency spread of the lines i.. , each lasting d, from time t on *)
RECURSIVE Spread(_, _, _)
Spread(i, t, acc) ==
    IF i >= NLines THEN acc
    ELSE LET end == t + Max(spread_min_dur, min_dur_s)
         IN Spread(i + 1, end + spread_gap,
                   Append(acc, TimedLine(i, i, t, end, lyric_lines[i + 1])))

(* not words: spread the lines from t = 0 and return *)
SpreadNoWords ==
    /\ pc = "materialize" /\ words = <<>>
    /\ out' = Spread(0, 0, <<>>)
    /\ pc' = "done"
    /\ UNCHANGED last_end_time
    /\ MaterializerVarsUnchanged

total_dur == IF words # <<>> THEN words[Len(words)].end ELSE 0

(* mutant of ClampStart: the lower bound 0.0 of the clamp is dropped *)
ClampStart_NoFloor(start_time) == Min(start_time, total_dur - min_gap_s)

ClampStart(start_time) == Min(start_time, Max(total_dur - min_gap_s, 0))
ClampEnd(start_time, end_time) == Min(Max(end_time, start_time + min_gap_s), total_dur)

(* mutant of SpanTimes: a span inside the word list is only kept min_gap_s long *)
SpanTimes_GapOnly(s, e, nw, last) ==
    IF s < nw
    THEN LET start_time == Max(words[s + 1].start - pad_s, last + min_gap_s)
         IN IF e <= s
            THEN <<start_time, start_time + min_gap_s>>
            ELSE <<start_time, Max(words[Max(e - 1, s) + 1].end + pad_s, start_time + min_gap_s)>>
    ELSE LET start_time == Max(last + min_gap_s, 0)
         IN <<start_time, start_time + Max(min_dur_s, min_gap_s)>>

(* mutant of SpanTimes: the times are derived without last_end_time *)
SpanTimes_NoLast(s, e, nw, last) ==
    IF s < nw
    THEN LET start_time == Max(words[s + 1].start - pad_s, min_gap_s)
         IN IF e <= s
            THEN <<start_time, Max(start_time + min_dur_s, start_time + min_gap_s)>>
            ELSE <<start_time, Max(words[Max(e - 1, s) + 1].end + pad_s, start_time + min_dur_s)>>
    ELSE <<min_gap_s, min_gap_s + Max(min_dur_s, min_gap_s)>>

(* the unclamped <<start_time, end_time>> of a span [s, e) of a list of nw words *)
SpanTimes(s, e, nw, last) ==
    IF s < nw
    THEN IF e <= s
         THEN LET anchor == words[s + 1].start
                  start_time == Max(anchor - pad_s, last + min_gap_s)
              IN <<start_time, Max(start_time + min_dur_s, start_time + min_gap_s)>>
         ELSE LET start_idx == s
                  end_idx == Max(e - 1, s)
                  start_time == Max(words[start_idx + 1].start - pad_s, last + min_gap_s)
              IN <<start_time, Max(words[end_idx + 1].end + pad_s, start_time + min_dur_s)>>
    ELSE LET start_time == Max(last + min_gap_s, 0)
         IN <<start_time, start_time + Max(min_dur_s, min_gap_s)>>

(* one iteration of the loop over the spans *)
MaterializeSpan ==
    /\ pc = "materialize" /\ words # <<>> /\ Len(out) < Len(spans)
    /\ LET span == spans[Len(out) + 1]
           nw == Len(words)
           s == Max(0, Min(span.start_word, nw))
           e == Max(0, Min(span.end_word, nw))
           t == SpanTimes(s, e, nw, last_end_time)
           start_time == ClampStart(t[1])
           end_time == ClampEnd(start_time, t[2])
       IN /\ out' = Append(out, TimedLine(Len(out), span.line_index, start_time, end_time,
                                          lyric_lines[span.line_index + 1]))
          /\ last_end_time' = end_time
    /\ UNCHANGED pc
    /\ MaterializerVarsUnchanged

MaterializeReturn ==
    /\ pc = "materialize" /\ words # <<>> /\ Len(out) = Len(spans)
    /\ pc' = "done"
    /\ UNCHANGED <<out, last_end_time>>
    /\ MaterializerVarsUnchanged

(***************************************************************************)
(* align_lines_to_segments: parameters (defaults).                         *)
(***************************************************************************)
seg_pad_s == 2
seg_min_gap_s == 8
window_back == 2
window_ahead == 6
max_merge == 3
max_jump_dist == 10
seg_jump_penalty == Rat(4, 100)
seg_accept_thresh == Rat(55, 100)
seg_strong_thresh == Rat(78, 100)
seg_spread_min_dur == 50
seg_spread_per_word == 25
seg_spread_gap == 10

nsegs == Len(segs)
total == IF segs # <<>> THEN segs[nsegs].end ELSE 0

SegVarsUnchanged ==
    UNCHANGED <<mode, words, segs, lyric_lines, asr_tokens, cur_idx, spans, scores, last_end_time,
                main, call>>

(* mutant of SegSpread: every line lasts 0.5 s whatever its word count *)
RECURSIVE SegSpread_Flat(_, _, _)
SegSpread_Flat(i, t, acc) ==
    IF i >= NLines THEN acc
    ELSE SegSpread_Flat(i + 1, t + seg_spread_min_dur + seg_spread_gap,
                        Append(acc, TimedLine(i, i, t, t + seg_spread_min_dur, lyric_lines[i + 1])))

RECURSIVE SegSpread(_, _, _)
SegSpread(i, t, acc) ==
    IF i >= NLines THEN acc
    ELSE LET dur == Max(seg_spread_min_dur,
                        Len(Split(normalize_text(lyric_lines[i + 1]))) * seg_spread_per_word)
         IN SegSpread(i + 1, t + dur + seg_spread_gap,
                      Append(acc, TimedLine(i, i, t, t + dur, lyric_lines[i + 1])))

(* not segs: spread the lines by their word count and return *)
SegNoSegs ==
    /\ pc = "segalign" /\ segs = <<>>
    /\ out' = SegSpread(0, 0, <<>>)
    /\ pc' = "done"
    /\ UNCHANGED <<li, cur, last_end, hist>>
    /\ SegVarsUnchanged

(* the stub of a blank or a rejected line: <<start, end>> *)
StubTimes(last) ==
    LET st == Max(last + seg_min_gap_s, last)
    IN <<st, Min(st + Max(seg_min_gap_s, seg_pad_s * 2), total)>>

(* mutant of SegBlank: a blank line is skipped without emitting a stub *)
SegBlank_Drop ==
    /\ pc = "segalign" /\ segs # <<>> /\ li < NLines
    /\ normalize_text(lyric_lines[li + 1]) = <<>>
    /\ hist' = Append(hist, [kind |-> "blank", before |-> cur, after |-> cur])
    /\ li' = li + 1
    /\ UNCHANGED <<pc, cur, out, last_end>>
    /\ UNCHANGED <<mode, words, segs, lyric_lines, asr_tokens, cur_idx, spans, scores, last_end_time,
                   main, call>>

SegBlank ==
    /\ pc = "segalign" /\ segs # <<>> /\ li < NLines
    /\ normalize_text(lyric_lines[li + 1]) = <<>>
    /\ LET t == StubTimes(last_end)
       IN /\ out' = Append(out, TimedLine(li, li, t[1], t[2], lyric_lines[li + 1]))
          /\ last_end' = t[2]
    /\ hist' = Append(hist, Hist("blank", cur, cur))
    /\ li' = li + 1
    /\ UNCHANGED <<pc, cur>>
    /\ SegVarsUnchanged

NoBest == [set |-> FALSE, score |-> RZero, j0 |-> 0, j1 |-> 0, st |-> 0, en |-> 0]

ClampProposed(st0, en0) ==
    <<Min(st0, Max(total - seg_min_gap_s, 0)),
      Min(Max(en0, Min(st0, Max(total - seg_min_gap_s, 0)) + seg_min_gap_s), total)>>

ProposedEnd(j1, st0) == ClampProposed(st0, Max(segs[j1 + 1].end + seg_pad_s, st0 + seg_min_gap_s))

(* the proposed <<st, en>> of segs[j0..j1] *)
ProposedTimes(j0, j1, last) ==
    ProposedEnd(j1, Max(segs[j0 + 1].start - seg_pad_s, last + seg_min_gap_s))

SegBest(score, j0, j1, t) ==
    [set |-> TRUE, score |-> score, j0 |-> j0, j1 |-> j1, st |-> t[1], en |-> t[2]]

SegBetter(best, score, j0, j1, last) ==
    IF ~best.set \/ RLess(best.score, score)
    THEN SegBest(score, j0, j1, ProposedTimes(j0, j1, last))
    ELSE best

SegDist(j0, c) == Min(Abs(j0 - c), max_jump_dist)

(* the inner loop over merges segs[j0..j1], from j1 on *)
RECURSIVE SegScanMerge(_, _, _, _, _, _, _)
SegScoreMerge(norm_line, c, last, j0, j1, joined, best, base_score) ==
    IF RGeq(base_score, seg_strong_thresh) /\ j0 >= c
    THEN SegBetter(best, RSub(base_score, RScale(SegDist(j0, c), seg_jump_penalty)), j0, j1, last)
    ELSE SegScanMerge(norm_line, c, last, j0, j1 + 1, joined,
             SegBetter(best, RSub(base_score, RScale(SegDist(j0, c), seg_jump_penalty)), j0, j1, last))

SegTryMerge(norm_line, c, last, j0, j1, joined, best) ==
    SegScoreMerge(norm_line, c, last, j0, j1, joined, best, _hybrid_score(joined, norm_line))

SegScanMerge(norm_line, c, last, j0, j1, joined, best) ==
    IF j1 > Min(nsegs - 1, j0 + max_merge - 1) THEN best
    ELSE SegTryMerge(norm_line, c, last, j0, j1,
                     IF j1 = j0 THEN segs[j0 + 1].text
                     ELSE Strip(joined \o <<" ">> \o segs[j1 + 1].text),
                     best)

(* the outer loop over the first segment j0, from j0 on *)
RECURSIVE SegScanStart(_, _, _, _, _)
SegScanStart(norm_line, c, last, j0, best) ==
    IF j0 > Min(nsegs - 1, c + window_ahead) THEN best
    ELSE SegScanStart(norm_line, c, last, j0 + 1,
                      SegScanMerge(norm_line, c, last, j0, j0, <<>>, best))

SegBestMatch(norm_line, c, last) ==
    SegScanStart(norm_line, c, last, Max(0, c - window_back), NoBest)

(* mutant of AcceptCursor: the cursor is left on the last matched segment *)
AcceptCursor_Stay(j1) == Min(j1, nsegs - 1)

AcceptCursor(j1) == Min(j1 + 1, nsegs - 1)

SegAccept ==
    /\ pc = "segalign" /\ segs # <<>> /\ li < NLines
    /\ LET norm_line == normalize_text(lyric_lines[li + 1])
           best == SegBestMatch(norm_line, cur, last_end)
       IN /\ norm_line # <<>>
          /\ best.set /\ RGeq(best.score, seg_accept_thresh)
          /\ out' = Append(out, TimedLine(li, li, best.st, best.en, lyric_lines[li + 1]))
          /\ last_end' = best.en
          /\ cur' = AcceptCursor(best.j1)
          /\ hist' = Append(hist, [kind |-> "accept", before |-> cur,
                                   after |-> AcceptCursor(best.j1), j1 |-> best.j1])
    /\ li' = li + 1
    /\ UNCHANGED pc
    /\ SegVarsUnchanged

(* mutant of SegReject: a rejected line moves the cursor one segment on *)
SegReject_Advance ==
    /\ pc = "segalign" /\ segs # <<>> /\ li < NLines
    /\ LET norm_line == normalize_text(lyric_lines[li + 1])
           best == SegBestMatch(norm_line, cur, last_end)
           t == StubTimes(last_end)
       IN /\ norm_line # <<>>
          /\ ~(best.set /\ RGeq(best.score, seg_accept_thresh))
          /\ out' = Append(out, TimedLine(li, li, t[1], t[2], lyric_lines[li + 1]))
          /\ last_end' = t[2]
    /\ cur' = Min(cur + 1, nsegs - 1)
    /\ hist' = Append(hist, Hist("reject", cur, Min(cur + 1, nsegs - 1)))
    /\ li' = li + 1
    /\ UNCHANGED <<pc, mode, words, segs, lyric_lines, asr_tokens, cur_idx, spans, scores,
                   last_end_time, main, call>>

SegReject ==
    /\ pc = "segalign" /\ segs # <<>> /\ li < NLines
    /\ LET norm_line == normalize_text(lyric_lines[li + 1])
           best == SegBestMatch(norm_line, cur, last_end)
           t == StubTimes(last_end)
       IN /\ norm_line # <<>>
          /\ ~(best.set /\ RGeq(best.score, seg_accept_thresh))
          /\ out' = Append(out, TimedLine(li, li, t[1], t[2], lyric_lines[li + 1]))
          /\ last_end' = t[2]
    /\ hist' = Append(hist, Hist("reject", cur, cur))
    /\ li' = li + 1
    /\ UNCHANGED <<pc, cur>>
    /\ SegVarsUnchanged

SegReturn ==
    /\ pc = "segalign" /\ segs # <<>> /\ li = NLines
    /\ pc' = "done"
    /\ UNCHANGED <<li, cur, last_end, out, hist>>
    /\ SegVarsUnchanged

(***************************************************************************)
(* main's alignment block: align_mode "words" runs the word aligner and    *)
(* the materializer on the words; "segments" runs the segment aligner.     *)
(***************************************************************************)
(* the locals of the alignment functions before any of them has run *)
Fresh ==
    /\ li = 0
    /\ cur_idx = 0 /\ spans = <<>> /\ scores = <<>>
    /\ out = <<>> /\ last_end_time = 0
    /\ cur = 0 /\ last_end = 0
    /\ hist = <<>>

(* the alignment block entered with a word list of WL or a segment list of SL *)
InitFrom(WL, SL) ==
    /\ mode \in {"words", "segments"}
    /\ lyric_lines \in LineLists
    /\ IF mode = "words"
       THEN words \in WL /\ segs = <<>> /\ pc = "align"
       ELSE segs \in SL /\ words = <<>> /\ pc = "segalign"
    /\ asr_tokens = Tokenize(words)
    /\ Fresh
    /\ main = [block |-> "align"] /\ call = [fn |-> "none"]

Init == InitFrom(WordLists, SegLists)

Next ==
    \/ AlignEmpty
    \/ AlignBlank
    \/ AlignAccept
    \/ AlignReject
    \/ AlignReturn
    \/ SpreadNoWords
    \/ MaterializeSpan
    \/ MaterializeReturn
    \/ SegNoSegs
    \/ SegBlank
    \/ SegAccept
    \/ SegReject
    \/ SegReturn

Spec == Init /\ [][Next]_vars

(***************************************************************************)
(* main, align_mode "auto": after the word aligner and the materializer,   *)
(* the decision between the word timeline tmp and the segment fallback.    *)
(* The block is entered here with any scores and any word timeline of N    *)
(* lines: scores high (0.9), then at the cutoff (0.45), then low (0.1);    *)
(* starts at 80% of the duration up to some line and past it afterwards,   *)
(* or the other way round.  A duration of 0 comes with words that all end  *)
(* at 0 or before, whose lines the materializer starts at 0.               *)
(***************************************************************************)
MaxAutoLines == 16

AutoScores(N) ==
    {[i \in 1..N |-> IF i <= h THEN Rat(9, 10)
                     ELSE IF i <= h + e THEN Rat(45, 100)
                     ELSE Rat(1, 10)] : h \in 0..N, e \in 0..1}

AutoStarts(N, d) ==
    IF d = 0 THEN {[i \in 1..N |-> 0]}
    ELSE {[i \in 1..N |-> IF i <= m THEN (4 * d) \div 5 ELSE (4 * d) \div 5 + 1] : m \in 0..N}
         \cup {[i \in 1..N |-> IF i <= m THEN (4 * d) \div 5 + 1 ELSE (4 * d) \div 5] : m \in 0..N}

AutoInit ==
    /\ mode = "auto" /\ pc = "auto"
    /\ words = <<>> /\ segs = <<>> /\ asr_tokens = <<>>
    /\ \E N \in 0..MaxAutoLines :
          /\ lyric_lines = [i \in 1..N |-> <<"A">>]
          /\ scores \in AutoScores(N)
          /\ \E d \in {0, 100} : \E st \in AutoStarts(N, d) :
                main = [total_dur |-> d,
                        tmp |-> [i \in 1..N |-> TimedLine(i - 1, i - 1, st[i], st[i] + min_gap_s,
                                                          lyric_lines[i])],
                        fallback |-> "undecided"]
    /\ li = 0 /\ cur_idx = 0 /\ spans = <<>>
    /\ out = <<>> /\ last_end_time = 0
    /\ cur = 0 /\ last_end = 0
    /\ hist = <<>>
    /\ call = [fn |-> "none"]

(* low = [s for s in scores if (s or 0.0) < 0.45] *)
low(sc) == SelectSeq(sc, LAMBDA s : RLess(s, Rat(45, 100)))

(* mutant of tail: the tail is the last quarter of the timeline *)
tail_Quarter(t) == SubSeq(t, Max(0, (Len(t) * 3) \div 4) + 1, Len(t))

(* tail = tmp[int(max(0, len(tmp)*0.8)):] *)
tail(t) == SubSeq(t, Max(0, (Len(t) * 4) \div 5) + 1, Len(t))

(* mutant of late: the late lines are counted over the whole timeline *)
late_Whole(t, d) ==
    IF d # 0 /\ t # <<>>
    THEN Len(SelectSeq(t, LAMBDA x : 5 * x.start > 4 * d))
    ELSE 0

(* late: the lines of the tail that start after total_dur*0.8 *)
late(t, d) ==
    IF d # 0 /\ t # <<>>
    THEN Len(SelectSeq(tail(t), LAMBDA x : 5 * x.start > 4 * d))
    ELSE 0

(* (len(low) > len(scores) * 0.5) or (late > max(2, len(tmp)//5)) *)
looked_poor(sc, t, d) ==
    \/ 2 * Len(low(sc)) > Len(sc)
    \/ late(t, d) > Max(2, Len(t) \div 5)

(* the word alignment looked poor: timed_lines = align_lines_to_segments(segs, *)
(* lyric_lines), which for no segments is the spread of the lines              *)
AutoFallback ==
    /\ pc = "auto" /\ segs = <<>>
    /\ looked_poor(scores, main.tmp, main.total_dur)
    /\ out' = SegSpread(0, 0, <<>>)
    /\ main' = [main EXCEPT !.fallback = TRUE]
    /\ pc' = "done"
    /\ UNCHANGED <<mode, words, segs, lyric_lines, li, asr_tokens, cur_idx, spans, scores,
                   last_end_time, cur, last_end, hist, call>>

(* else: timed_lines = tmp *)
AutoKeep ==
    /\ pc = "auto"
    /\ ~looked_poor(scores, main.tmp, main.total_dur)
    /\ out' = main.tmp
    /\ main' = [main EXCEPT !.fallback = FALSE]
    /\ pc' = "done"
    /\ UNCHANGED <<mode, words, segs, lyric_lines, li, asr_tokens, cur_idx, spans, scores,
                   last_end_time, cur, last_end, hist, call>>

AutoSpec == AutoInit /\ [][AutoFallback \/ AutoKeep]_vars

(***************************************************************************)
(* main: the first transcription pass and the auto-VAD retry.  A pass is   *)
(* <<words, segs, total_dur>>; here any k words and any k segments, item k *)
(* ending at 0.50 s + (k-1) * 0.15 s, with a total duration of 0 or 1 s.   *)
(* main.first and main.retry are history: the first pass and the retry     *)
(* pass, <<>> when there was none; main.verdict is what _needs_vad_retry   *)
(* returned, or raised.                                                    *)
(***************************************************************************)
RetryLists ==
    {Timed([i \in 1..k |-> <<"a">>], [t0 |-> 0, step |-> 15, dur |-> 50]) : k \in 0..MaxWords}

RetryInit ==
    /\ mode = "auto" /\ pc = "vad"
    /\ lyric_lines \in LineLists
    /\ \E srt_only \in BOOLEAN, v \in {"auto", "on", "off"}, d \in {0, 100} :
          /\ IF srt_only THEN words = <<>> /\ segs = <<>>
                         ELSE words \in RetryLists /\ segs \in RetryLists
          /\ main = [srt_only |-> srt_only, vad_mode |-> v, total_dur |-> d,
                     verdict |-> [raised |-> "not called", value |-> FALSE],
                     first |-> <<>>, retry |-> <<>>]
    /\ asr_tokens = <<>>
    /\ Fresh
    /\ call = [fn |-> "none"]

(* a / b of two numbers; <<0, 0>> stands for ZeroDivisionError *)
Div(a, b) == IF b = 0 THEN <<0, 0>> ELSE Rat(a, b)

(* segs[-1].end if segs else 0.0 *)
last_seg_end(sg) == IF sg # <<>> THEN sg[Len(sg)].end ELSE 0

(* sum(len(normalize_text(l).split()) for l in lyric_lines if l.strip()) *)
RECURSIVE est_lyric_words(_)
est_lyric_words(lines) ==
    IF lines = <<>> THEN 0
    ELSE (IF Strip(Head(lines)) # <<>> THEN Len(Split(normalize_text(Head(lines)))) ELSE 0)
         + est_lyric_words(Tail(lines))

(* mutant of token_ratio: without lyric words the ratio is len(words) / 1 *)
token_ratio_OverOne(nwords, est) == Div(nwords, Max(est, 1))

token_ratio(nwords, est) == IF est # 0 THEN Div(nwords, Max(est, 1)) ELSE RZero

(* return (coverage < 0.65) or (token_ratio < 0.35) *)
retry_verdict(coverage, ratio_) ==
    IF coverage[2] = 0 \/ ratio_[2] = 0
    THEN [raised |-> "ZeroDivisionError", value |-> FALSE]
    ELSE [raised |-> "none",
          value |-> RLess(coverage, Rat(65, 100)) \/ RLess(ratio_, Rat(35, 100))]

(* mutant of _needs_vad_retry: the guard on total_dur <= 0 is dropped *)
_needs_vad_retry_Unguarded(ws, sg, td, lines) ==
    retry_verdict(Div(last_seg_end(sg), td), token_ratio(Len(ws), est_lyric_words(lines)))

_needs_vad_retry(ws, sg, td, lines) ==
    IF td <= 0 THEN [raised |-> "none", value |-> TRUE]
    ELSE retry_verdict(Div(last_seg_end(sg), td), token_ratio(Len(ws), est_lyric_words(lines)))

(* mutant of improved: a retry that is not worse counts as improved *)
improved_NotWorse(words2, segs2, ws, sg) ==
    Len(words2) >= Len(ws) \/ last_seg_end(segs2) >= last_seg_end(sg)

improved(words2, segs2, ws, sg) ==
    Len(words2) > Len(ws) \/ last_seg_end(segs2) > last_seg_end(sg)

(* the condition of the retry block holds, is false, or raised *)
retry_wanted ==
    IF main.srt_only \/ main.vad_mode # "auto"
    THEN [raised |-> "not called", value |-> FALSE]
    ELSE _needs_vad_retry(words, segs, main.total_dur, lyric_lines)

RetryVarsUnchanged ==
    UNCHANGED <<mode, lyric_lines, li, asr_tokens, cur_idx, spans, scores, out, last_end_time,
                cur, last_end, hist, call>>

(* the retry block is skipped *)
VadSkip ==
    /\ pc = "vad"
    /\ retry_wanted.raised # "ZeroDivisionError" /\ ~retry_wanted.value
    /\ main' = [main EXCEPT !.verdict = retry_wanted,
                            !.first = <<words, segs, main.total_dur>>]
    /\ pc' = "vad_done"
    /\ UNCHANGED <<words, segs>>
    /\ RetryVarsUnchanged

(* the retry pass improved on the first pass: it replaces it *)
VadRetryReplace ==
    /\ pc = "vad"
    /\ retry_wanted.raised = "none" /\ retry_wanted.value
    /\ \E words2 \in RetryLists, segs2 \in RetryLists, total2 \in {0, 100} :
          /\ improved(words2, segs2, words, segs)
          /\ words' = words2 /\ segs' = segs2
          /\ main' = [main EXCEPT !.verdict = retry_wanted,
                                  !.first = <<words, segs, main.total_dur>>,
                                  !.retry = <<words2, segs2, total2>>,
                                  !.total_dur = total2]
    /\ pc' = "vad_done"
    /\ RetryVarsUnchanged

(* the retry pass did not improve: the first pass is kept *)
VadRetryKeep ==
    /\ pc = "vad"
    /\ retry_wanted.raised = "none" /\ retry_wanted.value
    /\ \E words2 \in RetryLists, segs2 \in RetryLists, total2 \in {0, 100} :
          /\ ~improved(words2, segs2, words, segs)
          /\ main' = [main EXCEPT !.verdict = retry_wanted,
                                  !.first = <<words, segs, main.total_dur>>,
                                  !.retry = <<words2, segs2, total2>>]
    /\ pc' = "vad_done"
    /\ UNCHANGED <<words, segs>>
    /\ RetryVarsUnchanged

RetryNext == VadSkip \/ VadRetryReplace \/ VadRetryKeep

RetrySpec == RetryInit /\ [][RetryNext]_vars

(***************************************************************************)
(* Direct calls of normalize_text and _hybrid_score on raw strings of up   *)
(* to MaxStr characters: a letter, a capital, punctuation, a space.        *)
(***************************************************************************)
MaxStr == 3

Chars == {"a", "B", "!", " "}

ScoreInit ==
    /\ mode = "call" /\ pc = "call"
    /\ \/ \E s \in SeqsUpTo(Chars, MaxStr) :
             call = [fn |-> "normalize_text", a |-> s, b |-> <<>>, result |-> <<>>]
       \/ \E a \in SeqsUpTo(Chars, MaxStr), b \in SeqsUpTo(Chars, MaxStr - 1) :
             call = [fn |-> "_hybrid_score", a |-> a, b |-> b, result |-> <<>>]
    /\ words = <<>> /\ segs = <<>> /\ lyric_lines = <<>> /\ asr_tokens = <<>>
    /\ Fresh
    /\ main = [block |-> "none"]

CallNormalize ==
    /\ pc = "call" /\ call.fn = "normalize_text"
    /\ call' = [call EXCEPT !.result = normalize_text(call.a)]
    /\ pc' = "returned"
    /\ UNCHANGED <<mode, words, segs, lyric_lines, li, asr_tokens, cur_idx, spans, scores,
                   out, last_end_time, cur, last_end, hist, main>>

CallHybrid ==
    /\ pc = "call" /\ call.fn = "_hybrid_score"
    /\ call' = [call EXCEPT !.result = _hybrid_score(call.a, call.b)]
    /\ pc' = "returned"
    /\ UNCHANGED <<mode, words, segs, lyric_lines, li, asr_tokens, cur_idx, spans, scores,
                   out, last_end_time, cur, last_end, hist, main>>

ScoreSpec == ScoreInit /\ [][CallNormalize \/ CallHybrid]_vars

(***************************************************************************)
(* The alignment block entered with words or segments that violate the     *)
(* input contract: times below 0 (item k from -1.00 s + (k-1) * 0.60 s,    *)
(* lasting 0.50 s), or an end before the start (item k ending 0.30 s       *)
(* before it starts).                                                      *)
(***************************************************************************)
BadLayouts == {[t0 |-> -100, step |-> 60, dur |-> 50],
               [t0 |-> 50, step |-> 100, dur |-> -30]}

ContractInit ==
    InitFrom({Timed(t, lay) : t \in SeqsUpTo(WordTexts, MaxWords), lay \in BadLayouts},
             {Timed(t, lay) : t \in SeqsUpTo(SegTexts, MaxWords), lay \in BadLayouts})

ContractSpec == ContractInit /\ [][Next]_vars

(***************************************************************************)
(* The four functions on the edge cases of their inputs: the alignment     *)
(* block entered with empty lists or with words and segments of zero       *)
(* duration (every time 0), any lines; the retry block from any first      *)
(* pass.                                                                   *)
(***************************************************************************)
EdgeInit ==
    \/ InitFrom({Timed(t, [t0 |-> 0, step |-> 0, dur |-> 0]) : t \in SeqsUpTo(WordTexts, MaxWords)},
                {Timed(t, [t0 |-> 0, step |-> 0, dur |-> 0]) : t \in SeqsUpTo(SegTexts, MaxWords)})
    \/ RetryInit

EdgeNext == Next \/ RetryNext

EdgeSpec == EdgeInit /\ [][EdgeNext]_vars

(***************************************************************************)
(* align_lines_to_segments called with an empty segment list and lines of  *)
(* zero to four words.                                                     *)
(***************************************************************************)
NoSegsInit ==
    /\ mode = "segments" /\ pc = "segalign"
    /\ lyric_lines \in SeqsUpTo({<<"a", " ", "b", " ", "a", " ", "b">>,
                               <<"a", " ", "b", " ", "a">>, <<"A">>, <<"!">>}, MaxLines)
    /\ words = <<>> /\ segs = <<>>
    /\ asr_tokens = <<>>
    /\ Fresh
    /\ main = [block |-> "align"] /\ call = [fn |-> "none"]

NoSegsSpec == NoSegsInit /\ [][SegNoSegs]_vars

(***************************************************************************)
(* The alignment block entered with words or segments laid end to end from *)
(* t = 0, each lasting 0.50 s (spec 9, Scenario A: hello [0.0, 0.5],       *)
(* world [0.5, 1.0]).                                                      *)
(***************************************************************************)
ScenarioInit ==
    InitFrom({Timed(t, [t0 |-> 0, step |-> 50, dur |-> 50]) : t \in SeqsUpTo(WordTexts, MaxWords)},
             {Timed(t, [t0 |-> 0, step |-> 50, dur |-> 50]) : t \in SeqsUpTo(SegTexts, MaxWords)})

ScenarioSpec == ScenarioInit /\ [][Next]_vars

(***************************************************************************)
(* The web server's project creation: POST /api/projects and the legacy    *)
(* POST /api/projects/create.  main is the projects directory (dirs: the   *)
(* project directories under PROJECTS_ROOT; files: the saved uploads, each *)
(* <<slug, "audio", stem, extension>>); call is one request and its        *)
(* response.  Names and query values are sequences of characters; a media  *)
(* type, a file stem and an extension are drawn in lower case as one       *)
(* string each.                                                            *)
(***************************************************************************)
(* re.sub(r"[^a-z0-9]+", "-", s): every run of other characters becomes one "-" *)
RECURSIVE SubDash(_, _)
SubDash(s, acc) ==
    IF s = <<>> THEN acc
    ELSE IF s[1] \in {"a", "b", "c", "e", "j", "o", "p", "r", "t", "0", "1"}
         THEN SubDash(Tail(s), Append(acc, s[1]))
    ELSE IF acc # <<>> /\ acc[Len(acc)] = "-" THEN SubDash(Tail(s), acc)
    ELSE SubDash(Tail(s), Append(acc, "-"))

(* s.strip(c) *)
RECURSIVE StripChar(_, _)
StripChar(s, c) ==
    IF s # <<>> /\ s[1] = c THEN StripChar(Tail(s), c)
    ELSE IF s # <<>> /\ s[Len(s)] = c THEN StripChar(SubSeq(s, 1, Len(s) - 1), c)
    ELSE s

(* mutant of slugify: the name is not lowercased *)
slugify_KeepCase(name) ==
    LET s == StripChar(SubDash(Strip(name), <<>>), "-")
    IN IF s # <<>> THEN s ELSE <<"p", "r", "o", "j", "e", "c", "t">>

slugify(name) ==
    LET s == StripChar(SubDash([i \in 1..Len(Strip(name)) |-> Lower(Strip(name)[i])], <<>>), "-")
    IN IF s # <<>> THEN s ELSE <<"p", "r", "o", "j", "e", "c", "t">>

Response(status, location, ok, slug, audio) ==
    [status |-> status, location |-> location, ok |-> ok, slug |-> slug, audio |-> audio]

WebInit ==
    /\ mode = "web" /\ pc = "request"
    /\ main \in {[dirs |-> {}, files |-> {}],
                 [dirs |-> {<<"a">>}, files |-> {<<<<"a">>, "audio", "track", ".mp3">>}]}
    /\ \E fn \in {"api_create_project", "api_create_project_legacy"},
          name \in SeqsUpTo({"A", "b", " ", "-"}, MaxStr) \ {<<>>},
          audio \in {[stem |-> "track", ext |-> ".mp3", content_type |-> "audio/mpeg"],
                     [stem |-> "", ext |-> "", content_type |-> "audio/wav"]},
          accept \in {<<>>, <<"text/html", "application/xhtml+xml">>, <<"application/json">>},
          redirect \in {<<>>, <<"1">>, <<" ", "1">>, <<"0">>},
          has_redirect \in BOOLEAN,
          valid \in {<<TRUE, TRUE, TRUE>>, <<FALSE, TRUE, TRUE>>, <<TRUE, FALSE, TRUE>>,
                     <<TRUE, TRUE, FALSE>>} :
          /\ has_redirect \/ redirect = <<>>
          /\ valid = <<TRUE, TRUE, TRUE>>
             \/ (fn = "api_create_project_legacy" /\ name = <<"A">> /\ audio.stem = "track"
                 /\ accept = <<>> /\ ~has_redirect)
          /\ call = [fn |-> fn, multipart |-> valid[1], has_name |-> valid[2], name |-> name,
                     has_audio |-> valid[3], audio |-> audio, accept |-> accept,
                     has_redirect |-> has_redirect, redirect |-> redirect,
                     response |-> Response(0, <<>>, FALSE, <<>>, <<>>)]
    /\ words = <<>> /\ segs = <<>> /\ lyric_lines = <<>> /\ asr_tokens = <<>>
    /\ Fresh

(* mutant of _should_redirect_to_project: the redirect query parameter is ignored *)
_should_redirect_to_project_AcceptOnly(request) ==
    \E k \in 1..Len(request.accept) : request.accept[k] = "text/html"

_should_redirect_to_project(request) ==
    IF request.has_redirect
    THEN [i \in 1..Len(Strip(request.redirect)) |-> Lower(Strip(request.redirect)[i])]
            \in {<<"1">>, <<"t", "r", "u", "e">>, <<"y", "e", "s">>, <<"o", "n">>}
    ELSE \E k \in 1..Len(request.accept) : request.accept[k] = "text/html"

(* Projects.save_upload(p, up, "audio"): the path the upload is written to *)
save_upload(slug, up) ==
    <<slug, "audio", IF up.stem # "" THEN up.stem ELSE "audio",
      IF up.ext \in {".mp3", ".wav", ".m4a", ".flac", ".aac", ".ogg", ".wma"} THEN up.ext
      ELSE IF up.content_type = "audio/mpeg" THEN ".mp3"
      ELSE IF up.content_type = "audio/wav" THEN ".wav"
      ELSE "">>

(* projects.create(slug) makes the directory of slugify(slug); the audio is  *)
(* saved under the directory projects.get returns; then the response         *)
_create_project_response(request) ==
    LET slug == slugify(request.name)
        p == slugify(slug)
        audio_path == save_upload(p, request.audio)
    IN /\ main' = [dirs |-> main.dirs \cup {p}, files |-> main.files \cup {audio_path}]
       /\ call' = [call EXCEPT !.response =
                      IF _should_redirect_to_project(request)
                      THEN Response(303, <<"/projects", slug>>, FALSE, <<>>, <<>>)
                      ELSE Response(200, <<>>, TRUE, slug, audio_path)]

api_create_project ==
    /\ pc = "request" /\ call.fn = "api_create_project"
    /\ _create_project_response(call)
    /\ pc' = "responded"
    /\ UNCHANGED <<mode, words, segs, lyric_lines, li, asr_tokens, cur_idx, spans, scores,
                   out, last_end_time, cur, last_end, hist>>

api_create_project_legacy ==
    /\ pc = "request" /\ call.fn = "api_create_project_legacy"
    /\ IF ~call.multipart
       THEN call' = [call EXCEPT !.response = Response(415, <<>>, FALSE, <<>>, <<>>)]
            /\ UNCHANGED main
       ELSE IF ~call.has_name \/ ~call.has_audio
       THEN call' = [call EXCEPT !.response = Response(422, <<>>, FALSE, <<>>, <<>>)]
            /\ UNCHANGED main
       ELSE _create_project_response(call)
    /\ pc' = "responded"
    /\ UNCHANGED <<mode, words, segs, lyric_lines, li, asr_tokens, cur_idx, spans, scores,
                   out, last_end_time, cur, last_end, hist>>

WebSpec == WebInit /\ [][api_create_project \/ api_create_project_legacy]_vars

(***************************************************************************)
(* greedy_align_lines_to_words called with one word more than MaxWords, so *)
(* that the cursor can stand backtrack words into the list with a word     *)
(* still ahead of it.                                                      *)
(***************************************************************************)
BacktrackInit ==
    /\ mode = "words" /\ pc = "align"
    /\ lyric_lines \in LineLists
    /\ words \in {Timed(t, [t0 |-> 0, step |-> 50, dur |-> 50]) :
                     t \in [1..(MaxWords + 1) -> {<<"a">>, <<"b">>}]}
    /\ segs = <<>>
    /\ asr_tokens = Tokenize(words)
    /\ Fresh
    /\ main = [block |-> "align"] /\ call = [fn |-> "none"]

BacktrackSpec == BacktrackInit /\ [][AlignBlank \/ AlignAccept \/ AlignReject \/ AlignReturn]_vars

(***************************************************************************)
(* greedy_align_lines_to_words: the outer loop over the candidate starts   *)
(* of one line, for a token list of up to MaxTokens tokens and any cursor. *)
(* The inner loop is reduced to its effect on the loop's control: whether  *)
(* best_score has reached 0.60, which any candidate start may bring about  *)
(* and none undoes.  main is the loop's state: scanned is the set of       *)
(* candidate starts whose windows were scored, broke whether the early     *)
(* break was taken.                                                        *)
(***************************************************************************)
MaxTokens == 66

(* mutant of start_hi: the candidate starts run to the last token *)
start_hi_NoLookahead(c, ntok) == ntok - 1

start_hi(c, ntok) == Min(ntok - 1, c + lookahead)

WindowInit ==
    /\ mode = "scan" /\ pc = "scan"
    /\ \E ntok \in 1..MaxTokens : \E c \in 0..ntok :
          main = [n |-> ntok, cur_idx |-> c, start |-> Max(0, c - backtrack),
                  scanned |-> {}, best_good |-> FALSE, broke |-> FALSE]
    /\ words = <<>> /\ segs = <<>> /\ lyric_lines = <<>> /\ asr_tokens = <<>>
    /\ Fresh
    /\ call = [fn |-> "none"]

(* one iteration of "for start in range(start_lo, start_hi + 1)" *)
ScanCandidate ==
    /\ pc = "scan" /\ main.start <= start_hi(main.cur_idx, main.n)
    /\ IF main.start - main.cur_idx > early_break /\ main.best_good
       THEN main' = [main EXCEPT !.broke = TRUE] /\ pc' = "scanned"
       ELSE /\ \E good \in BOOLEAN :
                 main' = [main EXCEPT !.scanned = @ \cup {main.start},
                                      !.best_good = @ \/ good,
                                      !.start = @ + 1]
            /\ UNCHANGED pc
    /\ UNCHANGED <<mode, words, segs, lyric_lines, li, asr_tokens, cur_idx, spans, scores,
                   out, last_end_time, cur, last_end, hist, call>>

(* the range is exhausted *)
ScanEnd ==
    /\ pc = "scan" /\ main.start > start_hi(main.cur_idx, main.n)
    /\ pc' = "scanned"
    /\ UNCHANGED <<mode, words, segs, lyric_lines, li, asr_tokens, cur_idx, spans, scores,
                   out, last_end_time, cur, last_end, hist, main, call>>

WindowSpec == WindowInit /\ [][ScanCandidate \/ ScanEnd]_vars

(***************************************************************************)
(* The image worker (lyricsync_web/image_pipeline/worker.py).  One         *)
(* _gpu_worker task and release_pipeline calls run on one asyncio event    *)
(* loop: a coroutine is left only at an await that suspends, which are     *)
(* JOB_QUEUE.get, a contended "async with lock" and asyncio.to_thread, so  *)
(* each action is the code between two such points.  A cache key           *)
(* (model_id, precision) is a number of 1..NKeys, a pipeline object is a   *)
(* positive number (0 is None): key k's pipeline loaded ahead by           *)
(* ensure_pipeline_loaded is k, every later load makes a new object.       *)
(* main holds the module's globals and the worker's position and locals,   *)
(* call holds the release_pipeline call.  Only models get_model knows are  *)
(* requested.                                                              *)
(***************************************************************************)
NKeys == 2

MaxJobs == 2

(* the globals after ensure_pipeline_loaded was awaited for the keys of pre *)
WorkerInit ==
    /\ mode = "worker" /\ pc = "run"
    /\ \E pre \in SUBSET (1..NKeys) :
          main = [JOB_QUEUE |-> <<>>, submitted |-> 0,
                  _PIPE_CACHE |-> [k \in 1..NKeys |-> IF k \in pre THEN k ELSE 0],
                  locked |-> {}, _KEEP_ALIVE_KEYS |-> pre, _ACTIVE_PIPELINES |-> {},
                  loads |-> NKeys, at |-> "get", cache_key |-> 0, pipe |-> 0]
    /\ call = [fn |-> "release_pipeline", at |-> "idle", cache_key |-> 0, cached |-> 0,
               result |-> "none"]
    /\ words = <<>> /\ segs = <<>> /\ lyric_lines = <<>> /\ asr_tokens = <<>>
    /\ Fresh

(* POST /generate puts a job for some key on the queue *)
EnqueueJob ==
    /\ mode = "worker" /\ main.submitted < MaxJobs
    /\ \E k \in 1..NKeys :
          main' = [main EXCEPT !.JOB_QUEUE = Append(@, k), !.submitted = @ + 1]
    /\ UNCHANGED <<mode, words, segs, lyric_lines, pc, li, asr_tokens, cur_idx, spans,
                   scores, out, last_end_time, cur, last_end, hist, call>>

(* the worker takes a job and enters _get_or_load_pipeline: the lock is    *)
(* free (only a load holds it across an await, and the one worker is not   *)
(* loading); a cached pipeline is returned and marked active at once, and  *)
(* the generation thread is started; otherwise the load thread is started  *)
(* with the lock held                                                      *)
_gpu_worker ==
    /\ mode = "worker" /\ main.at = "get" /\ main.JOB_QUEUE # <<>>
    /\ LET k == Head(main.JOB_QUEUE) IN
       /\ k \notin main.locked
       /\ IF main._PIPE_CACHE[k] # 0
          THEN main' = [main EXCEPT !.JOB_QUEUE = Tail(@), !.cache_key = k,
                                    !.pipe = main._PIPE_CACHE[k],
                                    !._ACTIVE_PIPELINES = @ \cup {k},
                                    !.at = "generating"]
          ELSE main' = [main EXCEPT !.JOB_QUEUE = Tail(@), !.cache_key = k,
                                    !.locked = @ \cup {k}, !.at = "loading"]
    /\ UNCHANGED <<mode, words, segs, lyric_lines, pc, li, asr_tokens, cur_idx, spans,
                   scores, out, last_end_time, cur, last_end, hist, call>>

(* the load thread ends: the pipeline is cached, the lock released, and    *)
(* back in _gpu_worker the key is marked active and the generation thread  *)
(* started; a failed load releases the lock and ends the job with          *)
(* cache_key still None                                                    *)
_get_or_load_pipeline ==
    /\ mode = "worker" /\ main.at = "loading"
    /\ \E loaded \in BOOLEAN :
          IF loaded
          THEN main' = [main EXCEPT !.loads = @ + 1,
                                    !._PIPE_CACHE[main.cache_key] = main.loads + 1,
                                    !.locked = @ \ {main.cache_key},
                                    !.pipe = main.loads + 1,
                                    !._ACTIVE_PIPELINES = @ \cup {main.cache_key},
                                    !.at = "generating"]
          ELSE main' = [main EXCEPT !.locked = @ \ {main.cache_key},
                                    !.cache_key = 0, !.at = "get"]
    /\ UNCHANGED <<mode, words, segs, lyric_lines, pc, li, asr_tokens, cur_idx, spans,
                   scores, out, last_end_time, cur, last_end, hist, call>>

(* the generation thread ends (or raises): the finally block *)
_gpu_worker_finally ==
    /\ mode = "worker" /\ main.at = "generating"
    /\ main' = [main EXCEPT !._ACTIVE_PIPELINES = @ \ {main.cache_key},
                            !._PIPE_CACHE[main.cache_key] =
                                IF main.cache_key \in main._KEEP_ALIVE_KEYS THEN @ ELSE 0,
                            !.cache_key = 0, !.pipe = 0, !.at = "get"]
    /\ UNCHANGED <<mode, words, segs, lyric_lines, pc, li, asr_tokens, cur_idx, spans,
                   scores, out, last_end_time, cur, last_end, hist, call>>

(* release_pipeline under the lock, up to its next await: the key leaves   *)
(* the keep-alive set, the cache entry is popped, and the move to the CPU  *)
(* starts in a thread if there was one                                     *)
ReleaseLocked(k) ==
    /\ main' = [main EXCEPT !._KEEP_ALIVE_KEYS = @ \ {k}, !._PIPE_CACHE[k] = 0]
    /\ call' = IF main._PIPE_CACHE[k] # 0
               THEN [call EXCEPT !.at = "to_cpu", !.cache_key = k,
                                 !.cached = main._PIPE_CACHE[k], !.result = "none"]
               ELSE [call EXCEPT !.at = "idle", !.cache_key = 0, !.cached = 0,
                                 !.result = "False"]

(* POST /pipeline/release for some key: the in-use test, then the lock *)
release_pipeline ==
    /\ mode = "worker" /\ call.at = "idle"
    /\ \E k \in 1..NKeys :
          IF k \in main._ACTIVE_PIPELINES
          THEN call' = [call EXCEPT !.result = "RuntimeError"] /\ UNCHANGED main
          ELSE IF k \in main.locked
          THEN call' = [call EXCEPT !.at = "lock", !.cache_key = k, !.result = "none"]
               /\ UNCHANGED main
          ELSE ReleaseLocked(k)
    /\ UNCHANGED <<mode, words, segs, lyric_lines, pc, li, asr_tokens, cur_idx, spans,
                   scores, out, last_end_time, cur, last_end, hist>>

(* a release that waited for the lock gets it *)
release_pipeline_lock ==
    /\ mode = "worker" /\ call.at = "lock" /\ call.cache_key \notin main.locked
    /\ ReleaseLocked(call.cache_key)
    /\ UNCHANGED <<mode, words, segs, lyric_lines, pc, li, asr_tokens, cur_idx, spans,
                   scores, out, last_end_time, cur, last_end, hist>>

(* cached.to("cpu") has run: release_pipeline returns True *)
release_pipeline_return ==
    /\ mode = "worker" /\ call.at = "to_cpu"
    /\ call' = [call EXCEPT !.at = "idle", !.cache_key = 0, !.cached = 0,
                            !.result = "True"]
    /\ UNCHANGED <<mode, words, segs, lyric_lines, pc, li, asr_tokens, cur_idx, spans,
                   scores, out, last_end_time, cur, last_end, hist, main>>

WorkerSpec ==
    WorkerInit /\ [][EnqueueJob \/ _gpu_worker \/ _get_or_load_pipeline
                     \/ _gpu_worker_finally \/ release_pipeline
                     \/ release_pipeline_lock \/ release_pipeline_return]_vars

(***************************************************************************)
(* Properties.                                                             *)
(***************************************************************************)
AlignerReturned == mode = "words" /\ pc \in {"materialize", "done"}
IsBlank(k) == normalize_text(lyric_lines[k]) = <<>>
HistKinds == {hist[k].kind : k \in 1..Len(hist)}

(* C1: for any word list and any N lyric lines, greedy_align_lines_to_words *)
(* returns exactly N spans and exactly N scores, and the k-th span has      *)
(* line_index k.                                                            *)
C1_SpanPerLine ==
    AlignerReturned =>
        /\ Len(spans) = NLines
        /\ Len(scores) = NLines
        /\ \A k \in 1..Len(spans) : spans[k].line_index = k - 1

(* C1 witness: the aligner returned for at least two lines, one of them     *)
(* blank, after leaving the loop early with stubbed lines.                  *)
C1_Witness ==
    /\ AlignerReturned /\ NLines >= 2
    /\ "blank" \in HistKinds /\ "stub" \in HistKinds

(* C2: for N lyric lines, the materializer on the aligner's spans and the   *)
(* segment aligner each return exactly N timed lines whose line indices are *)
(* 0..N-1 in input order; no blank line is dropped.                         *)
C2_TimedLinePerLine ==
    pc = "done" =>
        /\ Len(out) = NLines
        /\ \A k \in 1..Len(out) :
              /\ out[k].idx = k - 1
              /\ out[k].line_index = k - 1
              /\ out[k].text = lyric_lines[k]

(* C2 witness: a finished timeline of the word path with a blank line among *)
(* at least two lines, for a non-empty word list.                           *)
C2_Witness ==
    /\ pc = "done" /\ mode = "words" /\ words # <<>> /\ NLines >= 2
    /\ \E k \in 1..NLines : IsBlank(k)

(* C3 (as claimed): in the output of word_spans_to_timed_lines for a        *)
(* non-empty word list, no line starts before the previous line has ended.  *)
C3_NoOverlap ==
    (mode = "words" /\ words # <<>>) =>
        \A i \in 1..(Len(out) - 1) : out[i + 1].start >= out[i].end

(* C4: in the output of word_spans_to_timed_lines for words with            *)
(* 0 <= start <= end, every line satisfies 0 <= start <= end <= total_dur,  *)
(* the end time of the last word.                                           *)
C4_WithinTrack ==
    (mode = "words" /\ words # <<>>) =>
        \A k \in 1..Len(out) :
            /\ 0 <= out[k].start
            /\ out[k].start <= out[k].end
            /\ out[k].end <= total_dur

(* C4 witness: a finished timeline of at least two lines over a track       *)
(* shorter than min_gap_s, where the start clamp falls back to 0.           *)
C4_Witness ==
    /\ pc = "done" /\ mode = "words" /\ words # <<>>
    /\ total_dur < min_gap_s /\ Len(out) >= 2

(* C5 (as claimed): in the output of align_lines_to_segments for a          *)
(* non-empty segment list with 0 <= start <= end, every line satisfies      *)
(* 0 <= start <= end <= total, the end time of the last segment.            *)
C5_SegWithinTrack ==
    (mode = "segments" /\ segs # <<>>) =>
        \A k \in 1..Len(out) :
            /\ 0 <= out[k].start
            /\ out[k].start <= out[k].end
            /\ out[k].end <= total

(* C6 (as claimed): across increasing line index, the start times and the   *)
(* end times of the timeline of align_lines_to_segments are each            *)
(* non-decreasing.                                                          *)
C6_SegMonotonic ==
    mode = "segments" =>
        \A i \in 1..(Len(out) - 1) :
            /\ out[i].start <= out[i + 1].start
            /\ out[i].end <= out[i + 1].end

(* the word aligner's cursor when line k (1-based) is reached: the end of   *)
(* the span of the line before it                                          *)
CursorBefore(k) == IF k = 1 THEN 0 ELSE spans[k - 1].end_word

(* line j was committed as an accepted match *)
Accepted(j) == ~IsBlank(j) /\ n > 0 /\ RGeq(spans[j].score, accept_thresh)

(* an accepted span before line k moved the cursor to the end of the tokens *)
ExhaustedBefore(k) == \E j \in 1..(k - 1) : Accepted(j) /\ spans[j].end_word >= n

(* the cursor after the line processed last, while the loop is running *)
LastCursorIs(k, c) == (pc = "align" /\ k = Len(spans)) => cur_idx = c

(* C7 (as claimed): a line that normalizes to the empty string always gets  *)
(* score 1.0 and a zero-length span at the current cursor, whatever the     *)
(* word list is and whatever lines were processed before it.                *)
C7_BlankAlwaysOne ==
    mode = "words" =>
        \A k \in 1..Len(spans) :
            IsBlank(k) => spans[k] = MatchSpan(k - 1, CursorBefore(k), CursorBefore(k), ROne)

(* C7 (amended): when some word token survives normalization and no         *)
(* accepted span has moved the cursor to the end of the tokens before it,   *)
(* a line that normalizes to the empty string gets score 1.0 and a          *)
(* zero-length span at the current cursor and leaves the cursor unchanged;  *)
(* with no token, or after an accepted span reached the end, it gets a      *)
(* zero-length span at the cursor with score 0.0.                           *)
C7_BlankLine ==
    mode = "words" =>
        \A k \in 1..Len(spans) :
            IsBlank(k) =>
                /\ spans[k] = MatchSpan(k - 1, CursorBefore(k), CursorBefore(k),
                                        IF n = 0 \/ ExhaustedBefore(k) THEN RZero ELSE ROne)
                /\ LastCursorIs(k, CursorBefore(k))

(* C7 witness: a blank line reached at a cursor past the first word, in the *)
(* middle of the tokens, scored 1.0.                                        *)
C7_Witness ==
    /\ mode = "words" /\ pc = "done"
    /\ \E k \in 1..Len(spans) :
          /\ IsBlank(k) /\ spans[k].score = ROne
          /\ spans[k].start_word > 0 /\ spans[k].start_word < n

(* C8 (as claimed): once the cursor reaches the end of all word tokens,     *)
(* through an accepted span or through a rejection fallback span, every     *)
(* remaining line gets a zero-length span at that final cursor position     *)
(* with score 0.                                                            *)
C8_ExhaustedStubs ==
    mode = "words" =>
        \A k \in 1..Len(spans) :
            CursorBefore(k) >= n =>
                spans[k] = MatchSpan(k - 1, CursorBefore(k), CursorBefore(k), RZero)

(* C8 (amended): once an accepted span moves the cursor to the end of all   *)
(* word tokens, every remaining line gets a zero-length span at that final  *)
(* cursor position with score 0.                                            *)
C8_StubsAfterAccept ==
    mode = "words" =>
        \A k \in 1..Len(spans) : \A j \in 1..(k - 1) :
            (Accepted(j) /\ spans[j].end_word >= n) =>
                spans[k] = MatchSpan(k - 1, spans[j].end_word, spans[j].end_word, RZero)

(* C8 witness: an accepted span ended at the last token with a blank and a  *)
(* non-blank line still to come.                                            *)
C8_Witness ==
    /\ mode = "words" /\ pc = "done"
    /\ \E j \in 1..Len(spans) :
          /\ Accepted(j) /\ spans[j].end_word >= n
          /\ \E k1, k2 \in (j + 1)..Len(spans) : IsBlank(k1) /\ ~IsBlank(k2)

(* C9 (as claimed): when a non-empty line's best score is below             *)
(* accept_thresh, the committed span starts at the cursor and covers        *)
(* exactly max(min_window, 1) words, and the cursor strictly increases.     *)
C9_FallbackExact ==
    mode = "words" =>
        \A k \in 1..Len(hist) :
            hist[k].kind = "reject" =>
                /\ spans[k].start_word = CursorBefore(k)
                /\ spans[k].end_word = spans[k].start_word + Max(min_window, 1)
                /\ hist[k].after > hist[k].before

(* C9 (amended): when a non-empty line's best score is below accept_thresh, *)
(* the committed span starts at the cursor and covers max(min_window, 1)    *)
(* words or, when fewer are left, all the tokens left; the cursor advances  *)
(* to the end of that span, and strictly increases when the cursor was      *)
(* below the number of tokens.                                              *)
C9_FallbackClamped ==
    mode = "words" =>
        \A k \in 1..Len(hist) :
            hist[k].kind = "reject" =>
                /\ spans[k].start_word = CursorBefore(k)
                /\ spans[k].start_word = hist[k].before
                /\ spans[k].end_word = Min(spans[k].start_word + Max(min_window, 1), n)
                /\ hist[k].after = spans[k].end_word
                /\ LastCursorIs(k, spans[k].end_word)
                /\ (spans[k].start_word < n => spans[k].end_word > spans[k].start_word)

(* C9 witness: a rejected line with max(min_window, 1) words left got them  *)
(* all, and a later rejected line got fewer.                                *)
C9_Witness ==
    /\ mode = "words" /\ pc = "done"
    /\ \E k1, k2 \in 1..Len(hist) :
          /\ k1 < k2 /\ hist[k1].kind = "reject" /\ hist[k2].kind = "reject"
          /\ spans[k1].end_word - spans[k1].start_word = Max(min_window, 1)
          /\ spans[k2].end_word - spans[k2].start_word < Max(min_window, 1)

LastHist == hist[Len(hist)]
SegJustAccepted ==
    mode = "segments" /\ pc = "segalign" /\ hist # <<>> /\ LastHist.kind = "accept"

(* C10 (as claimed): when align_lines_to_segments accepts a match over      *)
(* segments j0..j1, the cursor used for the next line is j1 + 1, for every  *)
(* j1 including the last segment.                                           *)
C10_CursorPastMatch == SegJustAccepted => cur = LastHist.j1 + 1

(* C10 (amended): when align_lines_to_segments accepts a match over         *)
(* segments j0..j1, the cursor used for the next line is min(j1 + 1, n - 1) *)
(* for n segments: j1 + 1, except after the last segment, where it is the   *)
(* last segment's own index.                                                *)
C10_CursorClamped == SegJustAccepted => cur = Min(LastHist.j1 + 1, nsegs - 1)

(* C10 witness: an accepted match ending before the last segment moved the  *)
(* cursor to j1 + 1, and the accepted match of the next line, ending at the *)
(* last segment, left it at the last segment's index.                       *)
C10_Witness ==
    /\ SegJustAccepted /\ Len(hist) >= 2
    /\ LastHist.j1 = nsegs - 1 /\ cur = nsegs - 1
    /\ hist[Len(hist) - 1].kind = "accept"
    /\ hist[Len(hist) - 1].j1 < nsegs - 1
    /\ hist[Len(hist) - 1].after = hist[Len(hist) - 1].j1 + 1

(* the 0-based index in ws of the word whose text became token k (0-based)  *)
(* of the token list, scanning ws from index i                              *)
RECURSIVE WordOfToken(_, _, _)
WordOfToken(ws, k, i) ==
    IF normalize_text(ws[i + 1].text) = <<>> THEN WordOfToken(ws, k, i + 1)
    ELSE IF k = 0 THEN i
    ELSE WordOfToken(ws, k - 1, i + 1)

(* C11 (as claimed): start_word and end_word of every span returned by      *)
(* greedy_align_lines_to_words are indices into the input word list: for a  *)
(* line matched to the tokens [start_word, end_word), words[start_word] and *)
(* words[end_word - 1], whose times the materializer reads, are the first   *)
(* and the last word whose text was scored, also when some input words      *)
(* normalize to the empty string.                                           *)
C11_SpansIndexWords ==
    mode = "words" =>
        \A k \in 1..Len(spans) :
            (Accepted(k) /\ spans[k].start_word < spans[k].end_word) =>
                /\ WordOfToken(words, spans[k].start_word, 0) = spans[k].start_word
                /\ WordOfToken(words, spans[k].end_word - 1, 0) = spans[k].end_word - 1

(* the auto-mode decision has been taken *)
AutoDecided == mode = "auto" /\ pc = "done"

(* the number of scores below 0.45 *)
LowCount == Cardinality({i \in 1..Len(scores) : 100 * scores[i][1] < 45 * scores[i][2]})

(* the lines in the final 20% of the word timeline (from index floor(0.8 N) *)
(* on) that start after 80% of the total duration                           *)
LateCount ==
    Cardinality({i \in 1..Len(main.tmp) :
                    /\ 5 * (i - 1) >= 4 * Len(main.tmp) - 4
                    /\ 5 * main.tmp[i].start > 4 * main.total_dur})

(* C12: in auto mode main uses the segment timeline iff more than half of   *)
(* the per-line scores are below 0.45, or more than max(2, N/5) of the      *)
(* lines in the final 20% of the word timeline start after 80% of the total *)
(* duration; otherwise the word timeline is used unchanged.                 *)
C12_AutoFallback ==
    AutoDecided =>
        /\ main.fallback = TRUE <=>
              \/ 2 * LowCount > Len(scores)
              \/ (LateCount > 2 /\ 5 * LateCount > Len(main.tmp))
        /\ main.fallback = TRUE => out = SegSpread(0, 0, <<>>)
        /\ main.fallback = FALSE => out = main.tmp

(* C12 witness: the scores [0.9, 0.9, 0.1, 0.1, 0.1] selected the segment   *)
(* aligner.                                                                 *)
C12_Witness ==
    /\ AutoDecided /\ main.fallback = TRUE
    /\ scores = <<Rat(9, 10), Rat(9, 10), Rat(1, 10), Rat(1, 10), Rat(1, 10)>>

(* _needs_vad_retry was called on the first pass and returned *)
RetryAsked == mode = "auto" /\ pc = "vad_done" /\ main.verdict.raised = "none"

(* coverage = last_segment_end / total_dur of the first pass is below 0.65 *)
LowCoverage == 100 * last_seg_end(main.first[2]) < 65 * main.first[3]

(* len(words) / estimated_lyric_words of the first pass is below 0.35; a    *)
(* ratio over 0 estimated words is below no threshold                       *)
LowTokenRatio == 100 * Len(main.first[1]) < 35 * est_lyric_words(lyric_lines)

(* C13 (as claimed): _needs_vad_retry returns true iff total_dur <= 0, or   *)
(* last_segment_end / total_dur < 0.65, or len(words) /                     *)
(* estimated_lyric_words < 0.35 (0 words over 0 estimated words, a ratio    *)
(* of no value, is left out).                                               *)
C13_RetryIff ==
    (RetryAsked /\ (main.first[1] # <<>> \/ est_lyric_words(lyric_lines) # 0)) =>
        (main.verdict.value <=> (main.first[3] <= 0 \/ LowCoverage \/ LowTokenRatio))

(* C13 (amended): _needs_vad_retry returns true iff total_dur <= 0, or      *)
(* last_segment_end / total_dur < 0.65, or the lyrics have no word at all,  *)
(* or len(words) / estimated_lyric_words < 0.35; coverage below 0.65        *)
(* forces a retry regardless of the token ratio.                            *)
C13_RetryIffNoLyrics ==
    RetryAsked =>
        /\ main.verdict.value <=>
              \/ main.first[3] <= 0
              \/ LowCoverage
              \/ est_lyric_words(lyric_lines) = 0
              \/ LowTokenRatio
        /\ (main.first[3] > 0 /\ LowCoverage) => main.verdict.value

(* C13 witness: total_dur = 1 s and a last segment ending at 0.5 s          *)
(* (coverage 0.5) gave a retry although the words are as many as the        *)
(* lyric words.                                                             *)
C13_Witness ==
    /\ RetryAsked /\ main.verdict.value
    /\ main.first[3] = 100 /\ last_seg_end(main.first[2]) = 50
    /\ est_lyric_words(lyric_lines) > 0
    /\ Len(main.first[1]) >= est_lyric_words(lyric_lines)

(* a retry pass was run after the first pass *)
Retried == mode = "auto" /\ pc = "vad_done" /\ main.retry # <<>>

(* the retry pass has strictly more words or a strictly later last-segment  *)
(* end than the first pass                                                  *)
StrictlyBetter ==
    \/ Len(main.retry[1]) > Len(main.first[1])
    \/ last_seg_end(main.retry[2]) > last_seg_end(main.first[2])

(* C14: after a VAD-off retry pass, the words, segments and duration that   *)
(* go on to the alignment are those of the first pass or those of the retry *)
(* pass, all three together; they are the retry's only if the retry has     *)
(* strictly more words or a strictly later last-segment end, and otherwise  *)
(* the first pass's, unchanged.                                             *)
C14_RetryKept ==
    Retried =>
        /\ <<words, segs, main.total_dur>> \in {main.first, main.retry}
        /\ ~StrictlyBetter => <<words, segs, main.total_dur>> = main.first
        /\ <<words, segs, main.total_dur>> # main.first => StrictlyBetter

(* C14 witness: a retry pass with as many words and the same last-segment   *)
(* end as the first pass, but another duration, was discarded.              *)
C14_Witness ==
    /\ Retried /\ main.first[1] # <<>>
    /\ Len(main.retry[1]) = Len(main.first[1])
    /\ last_seg_end(main.retry[2]) = last_seg_end(main.first[2])
    /\ main.retry[3] # main.first[3]
    /\ main.total_dur = main.first[3]

(* a direct call of the function fn has returned *)
Called(fn) == mode = "call" /\ pc = "returned" /\ call.fn = fn

(* C15 (as claimed): _hybrid_score(a, b) returns 0.0 for any raw strings a  *)
(* and b such that normalize_text(a) or normalize_text(b) is the empty      *)
(* string, and otherwise a value in [0, 1].                                 *)
C15_ZeroOnEmpty ==
    Called("_hybrid_score") =>
        IF normalize_text(call.a) = <<>> \/ normalize_text(call.b) = <<>>
        THEN call.result = RZero
        ELSE RGeq(call.result, RZero) /\ RGeq(ROne, call.result)

(* C16: normalize_text is idempotent: normalizing its result again gives    *)
(* the same string.                                                         *)
C16_Idempotent ==
    Called("normalize_text") => normalize_text(call.result) = call.result

(* C16 witness: a raw string with a leading space, a capital and            *)
(* punctuation was normalized to the single letter.                         *)
C16_Witness ==
    /\ Called("normalize_text")
    /\ call.a = <<" ", "B", "!">> /\ call.result = <<"b">>

(* C17 (as claimed): for words or segments with negative times or with an   *)
(* end before the start, word_spans_to_timed_lines and                      *)
(* align_lines_to_segments treat negative times as 0: every start and every *)
(* end of the timeline is >= 0.                                             *)
C17_NonNegative ==
    \A k \in 1..Len(out) : out[k].start >= 0 /\ out[k].end >= 0

(* the list indices the materializer reads for its next span are in range *)
NextSpanInRange ==
    (pc = "materialize" /\ words # <<>> /\ Len(out) < Len(spans)) =>
        LET span == spans[Len(out) + 1]
            s == Max(0, Min(span.start_word, Len(words)))
            e == Max(0, Min(span.end_word, Len(words)))
        IN /\ span.line_index \in 0..(NLines - 1)
           /\ s < Len(words) => Max(e - 1, s) \in 0..(Len(words) - 1)

(* C18: greedy_align_lines_to_words, word_spans_to_timed_lines on the       *)
(* aligner's spans, align_lines_to_segments and _needs_vad_retry never      *)
(* reach an error for any combination of empty or non-empty word and        *)
(* segment lists, empty line list, blank lines, words that normalize to     *)
(* nothing and zero duration, and each returns a result: the call of        *)
(* _needs_vad_retry raises no ZeroDivisionError; the loops stay within      *)
(* their lists (line index, token cursor, segment cursor, the words read    *)
(* for a span), so that a step is possible until the function returns; and  *)
(* the result has one timed line per lyric line.                            *)
C18_NeverFails ==
    /\ pc = "vad" => retry_wanted.raised # "ZeroDivisionError"
    /\ pc = "vad_done" => main.verdict.raised # "ZeroDivisionError"
    /\ pc = "align" =>
          /\ li <= NLines /\ (n > 0 => Len(spans) = li)
          /\ cur_idx \in 0..n
          /\ \A k \in 1..Len(spans) :
                0 <= spans[k].start_word /\ spans[k].start_word <= spans[k].end_word
                /\ spans[k].end_word <= n
    /\ pc = "materialize" => Len(spans) = NLines /\ Len(out) <= Len(spans)
    /\ NextSpanInRange
    /\ pc = "segalign" =>
          /\ li <= NLines /\ (segs # <<>> => Len(out) = li)
          /\ cur \in 0..Max(nsegs - 1, 0)
    /\ pc = "done" => Len(out) = NLines

(* C18 witness: the materializer returned a line for each of two lines, one *)
(* of them blank, from words of zero duration that all normalize to         *)
(* nothing.                                                                 *)
C18_Witness ==
    /\ mode = "words" /\ pc = "done" /\ Len(out) = NLines
    /\ Len(words) >= 2 /\ asr_tokens = <<>> /\ words[Len(words)].end = 0
    /\ NLines >= 2 /\ IsBlank(1) /\ ~IsBlank(2)

(* no word of the input survives normalization *)
NoTokenSurvives == \A k \in 1..Len(words) : normalize_text(words[k].text) = <<>>

(* C19: if no word token survives normalization (an empty word list, or     *)
(* only words that normalize to the empty string),                          *)
(* greedy_align_lines_to_words gives every line, blank or not, the          *)
(* zero-length span [0, 0) with score 0.0.                                  *)
C19_NoTokens ==
    (AlignerReturned /\ NoTokenSurvives) =>
        /\ Len(spans) = NLines /\ Len(scores) = NLines
        /\ \A k \in 1..Len(spans) :
              spans[k] = MatchSpan(k - 1, 0, 0, RZero) /\ scores[k] = RZero

(* C19 witness: the aligner returned for a blank and a non-blank line over  *)
(* two words that both normalize to the empty string.                       *)
C19_Witness ==
    /\ AlignerReturned /\ NoTokenSurvives /\ Len(words) = 2
    /\ \E k1, k2 \in 1..NLines : IsBlank(k1) /\ ~IsBlank(k2)

(* C20: with an empty word list, word_spans_to_timed_lines returns for line *)
(* i the interval starting at i * (d + 0.1 s) and lasting d = max(0.5 s,    *)
(* min_dur_s): the first line starts at 0, every line lasts at least 0.5 s, *)
(* and no line starts before the line before it has ended.                  *)
C20_EmergencySpread ==
    (mode = "words" /\ pc = "done" /\ words = <<>>) =>
        /\ Len(out) = NLines
        /\ \A k \in 1..Len(out) :
              /\ out[k].start = (k - 1) * (Max(50, min_dur_s) + 10)
              /\ out[k].end = out[k].start + Max(50, min_dur_s)
              /\ out[k].end - out[k].start >= 50
              /\ k = 1 => out[k].start = 0
              /\ k > 1 => out[k].start >= out[k - 1].end

(* C20 witness: three lines, one of them blank, were spread from an empty   *)
(* word list.                                                               *)
C20_Witness ==
    /\ mode = "words" /\ pc = "done" /\ words = <<>>
    /\ Len(out) = 3 /\ \E k \in 1..NLines : IsBlank(k)

(* the number of words of the normalized line k (1-based) *)
NormWords(k) == Len(Split(normalize_text(lyric_lines[k])))

(* C21: with an empty segment list, align_lines_to_segments places the      *)
(* lines one after another from t = 0 with a fixed 0.1 s gap, line i        *)
(* lasting max(0.5, 0.25 * number of words of the normalized line); a       *)
(* single four-word line gets the interval [0, 1.0].                        *)
C21_SegSpread ==
    (mode = "segments" /\ pc = "done" /\ segs = <<>>) =>
        /\ Len(out) = NLines
        /\ \A k \in 1..NLines :
              /\ out[k].start = (IF k = 1 THEN 0 ELSE out[k - 1].end + 10)
              /\ out[k].end - out[k].start =
                    (IF 25 * NormWords(k) > 50 THEN 25 * NormWords(k) ELSE 50)
              /\ out[k].idx = k - 1 /\ out[k].line_index = k - 1
              /\ out[k].text = lyric_lines[k]
        /\ (lyric_lines = << <<"a", " ", "b", " ", "a", " ", "b">> >> =>
               out[1].start = 0 /\ out[1].end = 100)

(* C21 witness: a three-word line, lasting 0.75 s, was followed 0.1 s later *)
(* by a four-word line lasting 1.0 s.                                       *)
C21_Witness ==
    /\ mode = "segments" /\ pc = "done" /\ segs = <<>> /\ NLines >= 2
    /\ NormWords(1) = 3 /\ NormWords(2) = 4
    /\ out[1].end = 75 /\ out[2].start = 85 /\ out[2].end = 185

WordTimelineDone == mode = "words" /\ pc = "done" /\ words # <<>>

(* the clamped span indices of output line k (1-based), and the start time  *)
(* of the line before the clamp into the track                              *)
SpanS(k) == Max(0, Min(spans[k].start_word, Len(words)))
SpanE(k) == Max(0, Min(spans[k].end_word, Len(words)))
PrevEnd(k) == IF k = 1 THEN 0 ELSE out[k - 1].end
RawStart(k) == Max(words[SpanS(k) + 1].start - 2, PrevEnd(k) + 8)

(* C22 (as claimed): in the output of word_spans_to_timed_lines, every line *)
(* whose span start index lies inside the word list lasts at least          *)
(* min_dur_s: a zero-length span yields end = start + min_dur_s, and a      *)
(* normal span yields end = max(last matched word's end + pad_s,            *)
(* start + min_dur_s).                                                      *)
C22_MinDur ==
    WordTimelineDone =>
        \A k \in 1..Len(out) :
            SpanS(k) < Len(words) =>
                /\ out[k].end - out[k].start >= 75
                /\ out[k].end =
                      (IF SpanE(k) <= SpanS(k) THEN out[k].start + 75
                       ELSE Max(words[SpanE(k)].end + 2, out[k].start + 75))

(* C22 (amended): every line whose span start index lies inside the word    *)
(* list lasts at least min_dur_s or ends at total_dur, the last word's end: *)
(* with u the line's start before the clamp into the track, a zero-length   *)
(* span yields end = min(u + min_dur_s, total_dur) and a normal span        *)
(* end = min(max(words[end_word - 1].end + pad_s, u + min_dur_s),           *)
(* total_dur).                                                              *)
C22_MinDurOrTrackEnd ==
    WordTimelineDone =>
        \A k \in 1..Len(out) :
            SpanS(k) < Len(words) =>
                /\ out[k].end - out[k].start >= 75 \/ out[k].end = words[Len(words)].end
                /\ out[k].start <= RawStart(k)
                /\ out[k].end =
                      (IF SpanE(k) <= SpanS(k)
                       THEN Min(RawStart(k) + 75, words[Len(words)].end)
                       ELSE Min(Max(words[SpanE(k)].end + 2, RawStart(k) + 75),
                                words[Len(words)].end))

(* C22 witness: a line of a span inside the word list lasts exactly         *)
(* min_dur_s, well before the track's end, and a later line of a span       *)
(* inside the word list is cut short at total_dur.                          *)
C22_Witness ==
    /\ WordTimelineDone
    /\ \E k \in 1..Len(out) :
          /\ SpanS(k) < Len(words) /\ SpanE(k) > SpanS(k)
          /\ out[k].end = out[k].start + 75 /\ out[k].end < words[Len(words)].end
    /\ \E k \in 1..Len(out) :
          /\ SpanS(k) < Len(words)
          /\ out[k].end - out[k].start < 75 /\ out[k].end = words[Len(words)].end

(* the first line is the first k words (two or more, as in the example), and *)
(* the first word starts at 0                                                *)
FirstLineLeads(k) ==
    /\ NLines >= 1 /\ k >= 2 /\ k <= Len(words)
    /\ k = Len(Split(normalize_text(lyric_lines[1])))
    /\ \A i \in 1..k : normalize_text(words[i].text) = Split(normalize_text(lyric_lines[1]))[i]
    /\ words[1].start = 0

(* C23 (as claimed): for words hello [0.0, 0.5] and world [0.5, 1.0] and    *)
(* the single line "hello world" (and generally for a first line whose      *)
(* text equals the leading words and whose first word starts at 0), the     *)
(* aligner returns one span covering exactly those words with score 1.0,    *)
(* and the materialized line starts at 0.0 and ends no earlier than 0.75 s. *)
C23_ScenarioA ==
    WordTimelineDone =>
        \A k \in 2..Len(words) :
            FirstLineLeads(k) =>
                /\ spans[1].start_word = 0 /\ spans[1].end_word = k
                /\ spans[1].score = ROne
                /\ out[1].start = 0
                /\ out[1].end >= 75

(* the line about to be processed by align_lines_to_segments is accepted *)
SegLineAccepted ==
    LET norm_line == normalize_text(lyric_lines[li + 1])
        best == SegBestMatch(norm_line, cur, last_end)
    IN norm_line # <<>> /\ best.set /\ RGeq(best.score, seg_accept_thresh)

(* C24: in align_lines_to_segments, a rejected line (best score below       *)
(* accept_thresh) and a blank line each emit a stub after last_end and      *)
(* leave the segment cursor unchanged; only an accepted match changes the   *)
(* cursor.                                                                  *)
C24_StubKeepsCursor ==
    [][(pc = "segalign" /\ segs # <<>> /\ li < NLines) =>
          /\ ~SegLineAccepted =>
                /\ cur' = cur
                /\ Len(out') = Len(out) + 1
                /\ out'[Len(out')].line_index = li
                /\ out'[Len(out')].start = last_end + 8
                /\ out'[Len(out')].end = Min(last_end + 16, segs[Len(segs)].end)
                /\ last_end' = out'[Len(out')].end
          /\ cur' # cur => SegLineAccepted]_vars

(* C24 witness: after an accepted match moved the cursor to 1, a rejected   *)
(* line and a blank line each got a stub 0.08 s after the line before and   *)
(* left the cursor at 1.                                                    *)
C24_Witness ==
    /\ mode = "segments" /\ segs # <<>> /\ Len(hist) >= 3 /\ Len(out) = Len(hist)
    /\ \E k \in 2..Len(hist) :
          /\ hist[k].kind = "reject" /\ hist[k].before = 1 /\ hist[k].after = 1
          /\ out[k].start = out[k - 1].end + 8
    /\ \E k \in 2..Len(hist) :
          /\ hist[k].kind = "blank" /\ hist[k].before = 1 /\ hist[k].after = 1
          /\ out[k].start = out[k - 1].end + 8

(* C25: across increasing line index, the start times and the end times of  *)
(* the timeline returned by word_spans_to_timed_lines (non-empty words with *)
(* 0 <= start <= end) are each monotonically non-decreasing, for any spans  *)
(* produced by greedy_align_lines_to_words, including spans that backtrack  *)
(* to earlier words.                                                        *)
C25_WordMonotonic ==
    (mode = "words" /\ pc \in {"materialize", "done"} /\ words # <<>>) =>
        \A k \in 1..(Len(out) - 1) :
            /\ out[k].start <= out[k + 1].start
            /\ out[k].end <= out[k + 1].end

(* C25 witness: a finished timeline whose second span starts at a word      *)
(* before the end of the first span, and whose starts and ends both         *)
(* increase from the first line to the second.                              *)
C25_Witness ==
    /\ WordTimelineDone /\ Len(out) >= 2
    /\ spans[2].end_word > spans[2].start_word
    /\ spans[2].start_word < spans[1].end_word
    /\ out[1].start < out[2].start /\ out[1].end < out[2].end

(* a multipart create request with a name and an audio file was answered *)
CreateAnswered ==
    /\ mode = "web" /\ pc = "responded"
    /\ call.multipart /\ call.has_name /\ call.has_audio

RedirectTruthy ==
    call.has_redirect /\ call.redirect \in {<<"1">>, <<" ", "1">>}

AcceptsHtml == \E k \in 1..Len(call.accept) : call.accept[k] = "text/html"

(* the response is the 303 redirect to /projects/<slug> *)
IsRedirect(slug) ==
    call.response.status = 303 /\ call.response.location = <<"/projects", slug>>

(* the response is the 200 JSON body with ok, the slug and the saved audio path *)
IsJson(slug) ==
    /\ call.response.status = 200 /\ call.response.ok
    /\ call.response.slug = slug
    /\ call.response.audio \in main.files /\ call.response.audio[1] = slug

(* the project is retrievable under slug, which is lower-case [a-z0-9-] *)
Retrievable(slug) ==
    /\ slug \in main.dirs
    /\ slug # <<>> /\ \A i \in 1..Len(slug) : slug[i] \notin {"A", " "}
    /\ (call.name = <<"A", " ", "b">> => slug = <<"a", "-", "b">>)

(* C26 (as claimed): a multipart POST with a name and an audio file to      *)
(* /api/projects or to the legacy /api/projects/create always leaves a      *)
(* project retrievable under slugify(name), and answers with a 303 redirect *)
(* to /projects/<slug> exactly when the request asks for HTML (Accept       *)
(* contains text/html and no redirect query parameter overrides it),        *)
(* otherwise with a 200 JSON body carrying ok=true, that slug and the saved *)
(* audio path.                                                              *)
C26_CreateResponse ==
    CreateAnswered =>
        /\ Retrievable(slugify(call.name))
        /\ IF AcceptsHtml /\ ~(call.has_redirect /\ ~RedirectTruthy)
           THEN IsRedirect(slugify(call.name))
           ELSE IsJson(slugify(call.name))

(* C26 (amended): ... answers with a 303 redirect to /projects/<slug>       *)
(* exactly when the redirect query parameter is present with a true value   *)
(* (1, true, yes, on) or is absent while Accept contains text/html,         *)
(* otherwise with a 200 JSON body carrying ok=true, that slug and the saved *)
(* audio path.                                                              *)
C26_CreateResponseParam ==
    CreateAnswered =>
        /\ Retrievable(slugify(call.name))
        /\ IF RedirectTruthy \/ (~call.has_redirect /\ AcceptsHtml)
           THEN IsRedirect(slugify(call.name))
           ELSE IsJson(slugify(call.name))

(* C26 witness: the legacy endpoint answered a request for "A b" that       *)
(* accepts text/html but carries redirect=0 with the JSON body for the new  *)
(* project a-b.                                                             *)
C26_Witness ==
    /\ CreateAnswered /\ call.fn = "api_create_project_legacy"
    /\ call.name = <<"A", " ", "b">> /\ AcceptsHtml
    /\ call.has_redirect /\ call.redirect = <<"0">>
    /\ call.response.status = 200 /\ call.response.slug = <<"a", "-", "b">>
    /\ main.dirs = {<<"a", "-", "b">>}

(* C27 (as claimed): in greedy_align_lines_to_words the cursor never        *)
(* decreases from one line to the next: after any line is processed the     *)
(* cursor is >= its value before the line, so words already consumed by an  *)
(* earlier line are not matched again by a later line.                      *)
C27_CursorNeverDecreases ==
    (mode = "words" /\ pc = "align") =>
        /\ \A k \in 1..Len(hist) : hist[k].after >= hist[k].before
        /\ \A k \in 1..Len(hist) :
              spans[k].end_word > spans[k].start_word =>
                  spans[k].start_word >= hist[k].before

(* C27 (amended): in greedy_align_lines_to_words the cursor never decreases *)
(* by more than backtrack - min_window (1 with the defaults) from one line  *)
(* to the next: after a blank or a rejected line the cursor is >= its value *)
(* before the line, after an accepted line it is >= that value minus 1, and *)
(* a later line's span starts at most backtrack words before the cursor, so *)
(* only the last backtrack words already consumed can be matched again.     *)
C27_CursorBacktracksOne ==
    mode = "words" =>
        \A k \in 1..Len(hist) :
            /\ hist[k].after >= hist[k].before - (3 - 2)
            /\ hist[k].kind # "accept" => hist[k].after >= hist[k].before
            /\ spans[k].start_word >= hist[k].before - 3
            /\ spans[k].end_word = hist[k].after

(* C27 witness: an accepted line matched two words starting three words     *)
(* before the cursor and left the cursor one word back.                     *)
C27_Witness ==
    /\ mode = "words"
    /\ \E k \in 2..Len(hist) :
          /\ hist[k].kind = "accept" /\ hist[k].after = hist[k].before - 1
          /\ spans[k].start_word = hist[k].before - 3
          /\ spans[k].start_word < spans[k - 1].end_word

(* C28: in main's auto-mode fallback test, the late pile-up condition       *)
(* (late > max(2, N // 5), with late counted over tmp[int(0.8*N):]) can     *)
(* never hold when the number of lines N is below 11 or a multiple of 5;    *)
(* for those N the word-vs-segment choice depends only on the count of      *)
(* scores below 0.45.                                                       *)
C28_NoPileUpSmallN ==
    (AutoDecided /\ (NLines < 11 \/ NLines % 5 = 0)) =>
        /\ ~(late(main.tmp, main.total_dur) > Max(2, NLines \div 5))
        /\ main.fallback = TRUE <=> 2 * LowCount > NLines

(* C28 witness: with 15 lines, good scores and every line of the tail       *)
(* (3 lines) starting after 80% of the duration, the word timeline was      *)
(* kept.                                                                    *)
C28_Witness ==
    /\ AutoDecided /\ NLines = 15 /\ main.total_dur = 100
    /\ LowCount = 0 /\ LateCount = 3
    /\ main.fallback = FALSE /\ out = main.tmp

(* C29: with the default parameters of greedy_align_lines_to_words          *)
(* (lookahead = 30, early_break = 60), the outer-loop early break is never  *)
(* taken for any words and lines, because no candidate start lies more than *)
(* lookahead tokens past the cursor; the set of candidate starts scanned is *)
(* always the whole clamped window [cursor - backtrack, cursor + lookahead]. *)
C29_NoEarlyBreak ==
    mode = "scan" =>
        /\ ~main.broke
        /\ \A s \in main.scanned : s - main.cur_idx <= 30
        /\ pc = "scanned" =>
              main.scanned = {s \in 0..(main.n - 1) :
                                 s >= main.cur_idx - 3 /\ s <= main.cur_idx + 30}

(* C29 witness: with more than 60 tokens past the cursor and a best score   *)
(* of 0.60 or more, the scan covered the 34 starts from cursor - 3 to       *)
(* cursor + 30 and ended there.                                             *)
C29_Witness ==
    /\ mode = "scan" /\ pc = "scanned"
    /\ main.cur_idx = 3 /\ main.n - 1 - main.cur_idx > 60
    /\ main.best_good /\ ~main.broke
    /\ main.scanned = 0..33

(* C30: release_pipeline never pops from the cache or moves to the CPU a   *)
(* pipeline that a generation job is using: while the release holds a      *)
(* popped pipeline (its move to the CPU running), the worker is not        *)
(* generating with that same pipeline.                                     *)
C30_ReleaseNeverInUse ==
    mode = "worker" /\ call.at = "to_cpu" /\ main.at = "generating"
        => call.cached # main.pipe

====
